---- MODULE Spec2Model ----
(***************************************************************************)
(* Room synchronisation engine of infinity-box: the game manager           *)
(* (GameSyncManager) and the voice manager (VoiceChatManager), both in     *)
(* src/server/voiceChat.ts.  Every message handler is one action; a        *)
(* handler that awaits is split at the await into the part that runs       *)
(* before it and the continuation that runs after it.                      *)
(***************************************************************************)
EXTENDS Integers, Sequences, FiniteSets, TLC

\* ------------------------------------------------------------------ bounds
\* Spec follows one game room with NumIds identities; LobbySpec follows
\* LobbyRooms game rooms with LobbyIds identities.
NumIds == 3         \* identities (player ids / user ids) that send messages
NumConns == 2       \* WebSocket connections
MaxRooms == 1       \* game room ids generateRoomId hands out in a run of Spec
LobbyIds == 2       \* identities that send messages in LobbySpec
LobbyRooms == 2     \* game room ids generateRoomId hands out in a run of LobbySpec
MaxTimers == 3      \* timer handles alive at once
MaxEnding == 1      \* endGame invocations suspended at their awaits at once
MaxFruits == 1      \* fruits pushed on one gameState
VoiceIds == 2       \* identities that send messages in VoiceSpec
MaxVoiceRooms == 1  \* voice room ids generateRoomId hands out in a run
MaxSuspended == 1   \* voice handlers suspended at an await at once
MaxScoring == 2     \* handlePlayerScore invocations suspended at their await at once
PlayScoring == 1    \* the same, in a run of PlaySpec
MaxScore == 2       \* highest score a member collects in a run of PlaySpec
PlayIds == 2        \* identities that send messages in PlaySpec
MaxRanked == 3      \* members of the room that endGame ranks in RankingSpec
NumUsers == 2       \* registered users that log in
MaxLogins == 3      \* logins with the right password in one run
MaxSessionLog == 4  \* logins and logouts answered in one run

Ids == 1..NumIds
Conns == 1..NumConns

\* The connection an identity's client is connected through (two identities
\* may share one connection).
ConnOf(p) == 1 + ((p - 1) % NumConns)

\* What clients put in a room_create message: gameType and settings.
\* maxPlayers 0 stands for an absent (falsy) value.
CreateInputs ==
  { [gameType |-> "fruit_catching", maxPlayers |-> 0, isPrivate |-> FALSE, password |-> "none"],
    [gameType |-> "racing", maxPlayers |-> 2, isPrivate |-> TRUE, password |-> "pw"],
    [gameType |-> "other", maxPlayers |-> 1, isPrivate |-> FALSE, password |-> "pw"] }

Passwords == {"none", "pw"}

\* The updates object of a game_state_update message.
StateUpdates == { [gameSpeed |-> 2] }

\* Positions <<x, y>> that the random draw of joinGameRoom can give a member
\* (the creator of a room is put at <<50, 50>>).
JoinPositions == { <<50, 50>>, <<53, 54>> }

\* The one position drawn where positions play no part.
SomePosition == <<53, 54>>

\* The data of a bomb_explosion message: the explosion point, radius and damage.
BombInputs ==
  { [explosionPosition |-> <<50, 50>>, radius |-> 0, damage |-> 2],
    [explosionPosition |-> <<50, 50>>, radius |-> 5, damage |-> 2] }

\* The position a player_move message carries.
MovePositions == { <<10, 20>> }

\* The points of a player_score message.
Points == {1, 2}

\* What clients put in a voice_room_create message (maxUsers 0: absent).
VoiceCreateInputs ==
  { [maxUsers |-> 1, isPrivate |-> FALSE, password |-> "none"],
    [maxUsers |-> 0, isPrivate |-> TRUE, password |-> "pw"] }

\* The identities whose userInfo says isAdmin when they join a voice room.
AdminIds == {1}

\* The data of a voice_quality_change message (volume 0: absent or falsy).
QualityInputs ==
  { [quality |-> "medium", volume |-> 0], [quality |-> "high", volume |-> 50] }

\* The registered users that log in, their usernames (none holds a colon)
\* and the password each of them has.
AuthIds == 1..NumUsers
Usernames == [u \in AuthIds |-> "user" \o ToString(u)]
UserPassword == "pw"

VARIABLES
  voiceRooms,   \* VoiceChatManager.rooms: room id -> VoiceRoom
  userRooms,    \* VoiceChatManager.userRooms: user id -> room id
  suspended,    \* voice handlers suspended at an await, in the order they resume
  nextVoiceId,  \* number of voice room ids generated so far
  muteHandled,  \* users with a voice_mute handled and no voice_unmute handled since
  rooms,        \* GameSyncManager.rooms: room id -> GameRoom
  playerRooms,  \* GameSyncManager.playerRooms: player id -> room id
  gameTimers,   \* GameSyncManager.gameTimers: room id -> timer handle
  timeouts,     \* the setTimeout callbacks that are scheduled and not yet fired or cleared
  ending,       \* endGame invocations suspended at an awaited saveGameScore
  scoring,      \* handlePlayerScore invocations suspended at their awaited saveGameScore
  nextRoomId,   \* number of room ids generated so far
  connOpen,     \* connection -> readyState is OPEN
  isAlive,      \* connection -> the isAlive flag the server keeps on it
  closing,      \* connections terminated whose close event has not run yet
  awaiting,     \* connection -> pinged by the last sweep and no pong handled since
  activeSessionToken, \* user id -> the activeSessionToken column of the user's row
  nextSession,  \* number of session tokens generated so far
  logins,       \* login requests suspended at their awaited updateUser
  sessionLog,   \* the logins and logouts answered so far, in the order of their answers
  response,     \* the answer of the last HTTP request handled
  sent          \* the messages sent by the last handler, in order

gameVars == <<rooms, playerRooms, gameTimers, timeouts, ending, scoring, nextRoomId>>
voiceVars == <<voiceRooms, userRooms, suspended, nextVoiceId, muteHandled>>
routeVars == <<isAlive, closing, awaiting>>
authVars == <<activeSessionToken, nextSession, logins, sessionLog, response>>
vars == <<rooms, playerRooms, gameTimers, timeouts, ending, scoring, nextRoomId,
          voiceRooms, userRooms, suspended, nextVoiceId, muteHandled, connOpen,
          isAlive, closing, awaiting, activeSessionToken, nextSession, logins,
          sessionLog, response, sent>>

\* ------------------------------------------------------------ helpers
\* A message on the wire, as far as the claims look at it.
Msg(to, type, error) == [to |-> to, type |-> type, error |-> error]

\* An HTTP answer, as far as the claims look at it, with the token of the
\* request it answers (<<>>: the request carried none).
Answer(token, status, code) == [token |-> token, status |-> status, code |-> code]

\* Map.set on an insertion-ordered Map keyed by id: an existing key keeps its
\* position, a new key goes last.
MapSet(members, m) ==
  IF \E i \in 1..Len(members) : members[i].id = m.id
    THEN [i \in 1..Len(members) |-> IF members[i].id = m.id THEN m ELSE members[i]]
    ELSE Append(members, m)

\* Map.delete.
MapDelete(members, id) == SelectSeq(members, LAMBDA m : m.id # id)

MapHas(members, id) == \E i \in 1..Len(members) : members[i].id = id

MemberIds(members) == { members[i].id : i \in 1..Len(members) }

\* Map.delete on a map held as a function.
Without(f, k) == [x \in DOMAIN f \ {k} |-> f[x]]

\* Map.set on a map held as a function.
With(f, k, v) == [x \in DOMAIN f \cup {k} |-> IF x = k THEN v ELSE f[x]]

InitializeGameState(gameType) ==
  CASE gameType = "fruit_catching" ->
         [fruits |-> <<>>, bombs |-> <<>>, powerups |-> <<>>, gameSpeed |-> 1,
          spawnRate |-> 1000, difficulty |-> "medium"]
    [] gameType = "racing" ->
         [track |-> "default", laps |-> 3, checkpoints |-> <<>>, obstacles |-> <<>>]
    [] OTHER -> [k \in {} |-> 0]

\* sendToPlayer without its test of the connection's readyState.
SendToPlayerAnyState(open, ws, type, error) == <<Msg(ws, type, error)>>

\* sendToPlayer: nothing is sent on a connection that is not open.
SendToPlayer(open, ws, type, error) ==
  IF open[ws] THEN <<Msg(ws, type, error)>> ELSE <<>>

SendError(open, ws) == SendToPlayer(open, ws, "room_join", TRUE)

RECURSIVE BroadcastTo(_, _, _, _, _)
BroadcastTo(open, members, type, error, exclude) ==
  IF members = <<>> THEN <<>>
  ELSE (IF Head(members).id # exclude
          THEN SendToPlayer(open, Head(members).ws, type, error)
          ELSE <<>>)
       \o BroadcastTo(open, Tail(members), type, error, exclude)

\* broadcastToRoom over the room store rs; exclude 0 is no excluded player.
BroadcastToRoom(rs, open, roomId, type, error, exclude) ==
  IF roomId \notin DOMAIN rs THEN <<>>
  ELSE BroadcastTo(open, rs[roomId].players, type, error, exclude)

\* The messages msgs with the data object of the message put beside the
\* fields every message has.
WithData(msgs, data) ==
  [i \in 1..Len(msgs) |->
     [to |-> msgs[i].to, type |-> msgs[i].type, error |-> msgs[i].error, data |-> data]]

\* clearGameTimer: the handle in the table is cleared and its entry deleted.
ClearedTimers(roomId) == Without(gameTimers, roomId)

\* clearGameTimer that forgets the entry and leaves the callback scheduled.
ClearedTimeoutsKeeps(roomId) == timeouts

\* clearGameTimer: the callbacks still scheduled afterwards.
ClearedTimeouts(roomId) ==
  IF roomId \in DOMAIN gameTimers THEN timeouts \ {gameTimers[roomId]} ELSE timeouts

\* createRoom of the voice manager: the VoiceRoom it stores.
CreateRoom(maxUsers, isPrivate, password, isTemporary) ==
  [users |-> <<>>, maxUsers |-> maxUsers, isPrivate |-> isPrivate,
   password |-> password, noiseReduction |-> TRUE, isTemporary |-> isTemporary]

\* setupDefaultRooms: the two permanent rooms.
DefaultRooms ==
  [r \in {"general", "gaming"} |->
     CreateRoom(IF r = "general" THEN 50 ELSE 20, FALSE, "none", FALSE)]

\* The id generateRoomId of the voice manager hands out n-th.
VoiceRoomId(n) == "voice_" \o ToString(n)

\* The connection handler of the server: a new connection is alive.
Connected ==
  /\ connOpen = [c \in Conns |-> TRUE]
  /\ isAlive = [c \in Conns |-> TRUE]
  /\ closing = {}
  /\ awaiting = [c \in Conns |-> FALSE]

\* No user has logged in: the activeSessionToken column is null in every
\* row and no request has been answered.
SignedOut ==
  /\ activeSessionToken = [u \in AuthIds |-> "null"]
  /\ nextSession = 0
  /\ logins = {}
  /\ sessionLog = <<>>
  /\ response = Answer(<<>>, 0, "NONE")

\* ---------------------------------------------------------------- Init
Init ==
  /\ voiceRooms = DefaultRooms
  /\ userRooms = [u \in {} |-> ""]
  /\ suspended = <<>>
  /\ nextVoiceId = 0
  /\ muteHandled = {}
  /\ rooms = [r \in {} |-> 0]
  /\ playerRooms = [p \in {} |-> 0]
  /\ gameTimers = [r \in {} |-> 0]
  /\ timeouts = {}
  /\ ending = <<>>
  /\ scoring = <<>>
  /\ nextRoomId = 0
  /\ Connected
  /\ SignedOut
  /\ sent = <<>>

\* ------------------------------------------------------------- actions
\* room_create received on connection ws from player p.
CreateGameRoom(ws, p, inp) ==
  /\ connOpen[ws]
  /\ LET roomId == nextRoomId + 1
         player == [id |-> p, ws |-> ws, isHost |-> TRUE, isReady |-> TRUE,
                   score |-> 0, lives |-> 3, position |-> <<50, 50>>]
         room == [gameType |-> inp.gameType,
                  players |-> <<player>>,
                  gameState |-> InitializeGameState(inp.gameType),
                  maxPlayers |-> IF inp.maxPlayers = 0 THEN 4 ELSE inp.maxPlayers,
                  isPrivate |-> inp.isPrivate,
                  password |-> inp.password,
                  status |-> "waiting",
                  hostId |-> p]
     IN /\ nextRoomId' = roomId
        /\ rooms' = With(rooms, roomId, room)
        /\ playerRooms' = With(playerRooms, p, roomId)
        /\ sent' = SendToPlayer(connOpen, ws, "room_create", FALSE)
  /\ UNCHANGED <<gameTimers, timeouts, ending, scoring, connOpen>>
  /\ UNCHANGED voiceVars
  /\ UNCHANGED routeVars
  /\ UNCHANGED authVars

\* room.players.get(playerId).score.
ScoreOf(players, playerId) ==
  LET i == CHOOSE j \in 1..Len(players) : players[j].id = playerId
  IN players[i].score

\* A suspended handlePlayerScore holds the GamePlayer object it looked up.
\* When the room's entry for the player is deleted or replaced by a new
\* object, the held object is no longer the one the room's handlers update.
Detached(suspendedScores, roomId, playerId) ==
  [i \in 1..Len(suspendedScores) |->
     IF suspendedScores[i].roomId = roomId /\ suspendedScores[i].playerId = playerId
       THEN [suspendedScores[i] EXCEPT !.attached = FALSE]
       ELSE suspendedScores[i]]

\* player.score += points on the room's entry for the player: every suspended
\* handlePlayerScore that holds that same object sees the new score.
Rescored(suspendedScores, roomId, playerId, points) ==
  [i \in 1..Len(suspendedScores) |->
     IF /\ suspendedScores[i].roomId = roomId /\ suspendedScores[i].playerId = playerId
        /\ suspendedScores[i].attached
       THEN [suspendedScores[i] EXCEPT !.score = @ + points]
       ELSE suspendedScores[i]]

\* joinGameRoom without the test that the game is under way.
JoinVerdictWhilePlaying(roomId, password) ==
  IF roomId \notin DOMAIN rooms THEN "absent"
  ELSE IF Len(rooms[roomId].players) >= rooms[roomId].maxPlayers THEN "full"
  ELSE IF rooms[roomId].isPrivate /\ rooms[roomId].password # password THEN "password"
  ELSE "ok"

\* joinGameRoom with the capacity test off by one (> for >=).
JoinVerdictOffByOne(roomId, password) ==
  IF roomId \notin DOMAIN rooms THEN "absent"
  ELSE IF rooms[roomId].status = "playing" THEN "playing"
  ELSE IF Len(rooms[roomId].players) > rooms[roomId].maxPlayers THEN "full"
  ELSE IF rooms[roomId].isPrivate /\ rooms[roomId].password # password THEN "password"
  ELSE "ok"

\* The checks of joinGameRoom, in the code's order; "ok" admits.
JoinVerdict(roomId, password) ==
  IF roomId \notin DOMAIN rooms THEN "absent"
  ELSE IF rooms[roomId].status = "playing" THEN "playing"
  ELSE IF Len(rooms[roomId].players) >= rooms[roomId].maxPlayers THEN "full"
  ELSE IF rooms[roomId].isPrivate /\ rooms[roomId].password # password THEN "password"
  ELSE "ok"

\* The GamePlayer that joinGameRoom builds; position is the pair of random
\* coordinates it draws.
JoinedPlayer(p, ws, position) ==
  [id |-> p, ws |-> ws, isHost |-> FALSE, isReady |-> FALSE,
   score |-> 0, lives |-> 3, position |-> position]

\* room_join received on connection ws from player p; position is what the
\* random draw for the new member gives.
JoinGameRoom(ws, p, roomId, password, position) ==
  /\ connOpen[ws]
  /\ IF JoinVerdict(roomId, password) # "ok"
       THEN /\ sent' = SendError(connOpen, ws)
            /\ UNCHANGED <<rooms, playerRooms, scoring>>
       ELSE LET room == rooms[roomId]
                rs == [rooms EXCEPT ![roomId].players =
                         MapSet(room.players, JoinedPlayer(p, ws, position))]
            IN /\ rooms' = rs
               /\ playerRooms' = With(playerRooms, p, roomId)
               /\ scoring' = Detached(scoring, roomId, p)
               /\ sent' = BroadcastToRoom(rs, connOpen, roomId, "player_joined", FALSE, 0)
  /\ UNCHANGED <<gameTimers, timeouts, ending, nextRoomId, connOpen>>
  /\ UNCHANGED voiceVars
  /\ UNCHANGED routeVars
  /\ UNCHANGED authVars

\* The member that takes over when the host has left: the first value the
\* players Map iterates, i.e. the earliest inserted of the remaining members.
NewHostIndex(members) == 1

\* leaveGameRoom that never deletes the room.
NobodyLeftNever(members) == FALSE

\* The test that decides whether leaveGameRoom deletes the room.
NobodyLeft(members) == Len(members) = 0

HostTransfersNever(room, playerId, left) == FALSE

\* leaveGameRoom's test for handing the room to a new host: the departed
\* player was the host and somebody is left.
HostTransfers(room, playerId, left) == room.hostId = playerId /\ Len(left) > 0

\* The body of leaveGameRoom, given the connection states at the time it runs.
LeaveEffect(open, roomId, playerId) ==
  IF roomId \notin DOMAIN rooms \/ ~MapHas(rooms[roomId].players, playerId)
    THEN /\ sent' = <<>>
         /\ UNCHANGED <<rooms, playerRooms, gameTimers, timeouts, scoring>>
    ELSE LET room == rooms[roomId]
             left == MapDelete(room.players, playerId)
             transfer == HostTransfers(room, playerId, left)
             h == NewHostIndex(left)
             after == IF transfer
                        THEN [room EXCEPT !.players = [left EXCEPT ![h].isHost = TRUE],
                                          !.hostId = left[h].id]
                        ELSE [room EXCEPT !.players = left]
         IN /\ playerRooms' = Without(playerRooms, playerId)
            /\ scoring' = Detached(scoring, roomId, playerId)
            /\ IF NobodyLeft(left)
                 THEN /\ rooms' = Without(rooms, roomId)
                      /\ gameTimers' = ClearedTimers(roomId)
                      /\ timeouts' = ClearedTimeouts(roomId)
                      /\ sent' = <<>>
                 ELSE /\ rooms' = [rooms EXCEPT ![roomId] = after]
                      /\ sent' = BroadcastToRoom([rooms EXCEPT ![roomId] = after], open,
                                                 roomId, "player_left", FALSE, 0)
                      /\ UNCHANGED <<gameTimers, timeouts>>

\* room_leave received on some open connection, naming room roomId and
\* player playerId (the handler does not look at the connection).
LeaveGameRoom(roomId, playerId) ==
  /\ \E ws \in Conns : connOpen[ws]
  /\ LeaveEffect(connOpen, roomId, playerId)
  /\ UNCHANGED <<ending, nextRoomId, connOpen>>
  /\ UNCHANGED voiceVars
  /\ UNCHANGED routeVars
  /\ UNCHANGED authVars

\* The first <<roomId, playerId>> that handlePlayerDisconnect finds for ws:
\* rooms in insertion order (ids are handed out in order), then players in
\* insertion order.  The empty set when no member is owned by ws.
FirstOwned(ws) ==
  LET owned == { r \in DOMAIN rooms : \E i \in 1..Len(rooms[r].players) : rooms[r].players[i].ws = ws }
  IN IF owned = {} THEN {}
     ELSE LET r == CHOOSE x \in owned : \A y \in owned : x <= y
              i == CHOOSE j \in 1..Len(rooms[r].players) :
                     /\ rooms[r].players[j].ws = ws
                     /\ \A k \in 1..(j - 1) : rooms[r].players[k].ws # ws
          IN { <<r, rooms[r].players[i].id>> }

\* The close event of connection ws (handlePlayerDisconnect).
HandlePlayerDisconnect(ws) ==
  /\ connOpen[ws]
  /\ connOpen' = [connOpen EXCEPT ![ws] = FALSE]
  /\ IF FirstOwned(ws) = {}
       THEN /\ sent' = <<>>
            /\ UNCHANGED <<rooms, playerRooms, gameTimers, timeouts, scoring>>
       ELSE LET f == CHOOSE x \in FirstOwned(ws) : TRUE
            IN LeaveEffect([connOpen EXCEPT ![ws] = FALSE], f[1], f[2])
  /\ UNCHANGED <<ending, nextRoomId>>
  /\ UNCHANGED voiceVars
  /\ UNCHANGED routeVars
  /\ UNCHANGED authVars

\* startGame without its test of the requester.
StartVerdictAnyRequester(roomId, hostId) ==
  IF roomId \notin DOMAIN rooms THEN "drop"
  ELSE IF \E i \in 1..Len(rooms[roomId].players) : ~rooms[roomId].players[i].isReady
    THEN "not_ready"
  ELSE "start"

\* startGame without its readiness test.
StartVerdictSkipsReady(roomId, hostId) ==
  IF roomId \notin DOMAIN rooms \/ rooms[roomId].hostId # hostId THEN "drop" ELSE "start"

\* The gate of startGame: what the request is checked against.
StartVerdict(roomId, hostId) ==
  IF roomId \notin DOMAIN rooms \/ rooms[roomId].hostId # hostId THEN "drop"
  ELSE IF \E i \in 1..Len(rooms[roomId].players) : ~rooms[roomId].players[i].isReady
    THEN "not_ready"
  ELSE "start"

\* The timer handles (<<roomId, n>>: the n-th live timer of the room) that no
\* scheduled callback and no table entry uses.  setTimeout returns a new
\* timer object: startGameTimer takes a handle that was free before it
\* cleared the room's former one.
FreeHandles(roomId, timers, pending) ==
  { h \in {roomId} \X (1..MaxTimers) : h \notin pending /\ \A r \in DOMAIN timers : timers[r] # h }

\* startGameTimer: the timer table and the scheduled callbacks afterwards.
StartedTimers(roomId, h) == With(ClearedTimers(roomId), roomId, h)

StartedTimeouts(roomId, h) == ClearedTimeouts(roomId) \cup {h}

\* startGame that leaves the room's gameState as it is.
StartedGameStateKept(room) == room.gameState

\* The gameState startGame gives the room.
StartedGameState(room) == InitializeGameState(room.gameType)

\* game_start received on some open connection for room roomId, naming
\* player hostId as the requester (startGame is not given the connection).
StartGame(roomId, hostId) ==
  /\ \E ws \in Conns : connOpen[ws]
  /\ CASE StartVerdict(roomId, hostId) = "drop" ->
            /\ sent' = <<>>
            /\ UNCHANGED <<rooms, gameTimers, timeouts>>
       [] StartVerdict(roomId, hostId) = "not_ready" ->
            /\ sent' = BroadcastToRoom(rooms, connOpen, roomId, "game_start", TRUE, 0)
            /\ UNCHANGED <<rooms, gameTimers, timeouts>>
       [] OTHER ->
            /\ FreeHandles(roomId, gameTimers, timeouts) # {}
            /\ LET free == FreeHandles(roomId, gameTimers, timeouts)
                   h == CHOOSE x \in free : \A y \in free : x[2] <= y[2]
                   rs == [rooms EXCEPT ![roomId].status = "playing",
                                       ![roomId].gameState = StartedGameState(rooms[roomId])]
               IN /\ rooms' = rs
                  /\ gameTimers' = StartedTimers(roomId, h)
                  /\ timeouts' = StartedTimeouts(roomId, h)
                  /\ sent' = BroadcastToRoom(rs, connOpen, roomId, "game_start", FALSE, 0)
  /\ UNCHANGED <<playerRooms, ending, scoring, nextRoomId, connOpen>>
  /\ UNCHANGED voiceVars
  /\ UNCHANGED routeVars
  /\ UNCHANGED authVars

\* One step of the sort of endGame with a stable Array.prototype.sort and
\* the comparison that puts an entry before those it beats only.
InsertRankedBeforeTies(ranked, e) ==
  LET k == Cardinality({ i \in 1..Len(ranked) : ranked[i].score > e.score })
  IN SubSeq(ranked, 1, k) \o <<e>> \o SubSeq(ranked, k + 1, Len(ranked))

\* One step of the sort of endGame, (a, b) => b.score - a.score on a stable
\* Array.prototype.sort: entry e goes behind every entry of the ranked list
\* whose score is not lower than its own.
InsertRanked(ranked, e) ==
  LET k == Cardinality({ i \in 1..Len(ranked) : ranked[i].score >= e.score })
  IN SubSeq(ranked, 1, k) \o <<e>> \o SubSeq(ranked, k + 1, Len(ranked))

RECURSIVE SortByScore(_)
SortByScore(entries) ==
  IF entries = <<>> THEN <<>>
  ELSE InsertRanked(SortByScore(SubSeq(entries, 1, Len(entries) - 1)), entries[Len(entries)])

\* The results array of endGame: one entry per member in Map order, sorted.
Results(players) ==
  SortByScore([i \in 1..Len(players) |-> [id |-> players[i].id, score |-> players[i].score]])

\* The part of endGame that runs before its first await: the room is marked
\* finished and its timer cleared; the handler then suspends at saveGameScore.
EndGameEffect(roomId, reason) ==
  IF roomId \notin DOMAIN rooms
    THEN UNCHANGED <<rooms, gameTimers, ending>>
    ELSE /\ rooms' = [rooms EXCEPT ![roomId].status = "finished"]
         /\ gameTimers' = ClearedTimers(roomId)
         /\ ending' = IF Len(rooms[roomId].players) = 0 THEN ending
                       ELSE Append(ending, [roomId |-> roomId, reason |-> reason,
                                            results |-> Results(rooms[roomId].players)])

\* The callback of a timer scheduled for room roomId fires: endGame(roomId,
\* 'timeout').  clearGameTimer inside endGame then clears the handle the
\* table holds for the room, which is this one unless another is scheduled.
GameTimeout(roomId) ==
  /\ Len(ending) < MaxEnding
  /\ \E h \in timeouts :
       /\ h[1] = roomId
       /\ timeouts' = (IF roomId \in DOMAIN rooms THEN ClearedTimeouts(roomId) ELSE timeouts) \ {h}
  /\ EndGameEffect(roomId, "timeout")
  /\ sent' = <<>>
  /\ UNCHANGED <<playerRooms, scoring, nextRoomId, connOpen>>
  /\ UNCHANGED voiceVars
  /\ UNCHANGED routeVars
  /\ UNCHANGED authVars

\* A suspended endGame resumes after its last awaited save and broadcasts
\* game_end, with the results it computed before suspending and results[0]
\* as winner, to the room as it is then.
EndGameBroadcast ==
  /\ \E i \in 1..Len(ending) :
       /\ ending' = [j \in 1..(Len(ending) - 1) |-> IF j < i THEN ending[j] ELSE ending[j + 1]]
       /\ sent' = WithData(BroadcastToRoom(rooms, connOpen, ending[i].roomId, "game_end", FALSE, 0),
                           [reason |-> ending[i].reason, results |-> ending[i].results,
                            winner |-> ending[i].results[1]])
  /\ UNCHANGED <<rooms, playerRooms, gameTimers, timeouts, scoring, nextRoomId, connOpen>>
  /\ UNCHANGED voiceVars
  /\ UNCHANGED routeVars
  /\ UNCHANGED authVars

\* fruit_spawn received on some open connection for room roomId.
HandleFruitSpawn(roomId, fruit) ==
  /\ \E ws \in Conns : connOpen[ws]
  /\ IF roomId \notin DOMAIN rooms \/ rooms[roomId].status # "playing"
       THEN /\ sent' = <<>>
            /\ UNCHANGED rooms
       ELSE LET gs == rooms[roomId].gameState
                fruits == IF "fruits" \in DOMAIN gs THEN gs.fruits ELSE <<>>
            IN /\ Len(fruits) < MaxFruits
               /\ rooms' = [rooms EXCEPT ![roomId].gameState =
                              [k \in DOMAIN gs \cup {"fruits"} |->
                                 IF k = "fruits" THEN Append(fruits, fruit) ELSE gs[k]]]
               /\ sent' = BroadcastToRoom(rooms, connOpen, roomId, "fruit_spawn", FALSE, 0)
  /\ UNCHANGED <<playerRooms, gameTimers, timeouts, ending, scoring, nextRoomId, connOpen>>
  /\ UNCHANGED voiceVars
  /\ UNCHANGED routeVars
  /\ UNCHANGED authVars

\* game_state_update received on some open connection for room roomId.
BroadcastGameState(roomId, updates) ==
  /\ \E ws \in Conns : connOpen[ws]
  /\ IF roomId \notin DOMAIN rooms
       THEN /\ sent' = <<>>
            /\ UNCHANGED rooms
       ELSE LET rs == [rooms EXCEPT ![roomId].gameState = updates @@ rooms[roomId].gameState]
            IN /\ rooms' = rs
               /\ sent' = BroadcastToRoom(rs, connOpen, roomId, "game_state_update", FALSE, 0)
  /\ UNCHANGED <<playerRooms, gameTimers, timeouts, ending, scoring, nextRoomId, connOpen>>
  /\ UNCHANGED voiceVars
  /\ UNCHANGED routeVars
  /\ UNCHANGED authVars

\* calculateDistance, squared: the code takes the square root of this sum.
DistanceSquared(pos1, pos2) ==
  (pos2[1] - pos1[1]) * (pos2[1] - pos1[1]) + (pos2[2] - pos1[2]) * (pos2[2] - pos1[2])

\* The radius test of handleBombExplosion with < for <=.
WithinRadiusStrict(position, bomb) ==
  bomb.radius >= 0 /\ DistanceSquared(position, bomb.explosionPosition) < bomb.radius * bomb.radius

\* distance <= radius in handleBombExplosion: the square root of the sum is at
\* most the radius exactly when the radius is not negative and the sum is at
\* most its square.
WithinRadius(position, bomb) ==
  bomb.radius >= 0 /\ DistanceSquared(position, bomb.explosionPosition) <= bomb.radius * bomb.radius

\* What the forEach of handleBombExplosion does to one member.
Exploded(player, bomb) ==
  IF WithinRadius(player.position, bomb)
    THEN [player EXCEPT !.lives = IF @ - bomb.damage <= 0 THEN 0 ELSE @ - bomb.damage]
    ELSE player

\* The affectedPlayers list of the bomb_explosion broadcast: filter, then map.
AffectedPlayers(players, bomb) ==
  LET hit == SelectSeq(players, LAMBDA m : WithinRadius(m.position, bomb))
  IN [i \in 1..Len(hit) |-> [id |-> hit[i].id, lives |-> hit[i].lives]]

\* bomb_explosion received on some open connection for room roomId.
HandleBombExplosion(roomId, bomb) ==
  /\ \E ws \in Conns : connOpen[ws]
  /\ IF roomId \notin DOMAIN rooms
       THEN /\ sent' = <<>>
            /\ UNCHANGED rooms
       ELSE LET players == rooms[roomId].players
                after == [i \in 1..Len(players) |-> Exploded(players[i], bomb)]
                rs == [rooms EXCEPT ![roomId].players = after]
            IN /\ rooms' = rs
               /\ sent' = WithData(BroadcastToRoom(rs, connOpen, roomId, "bomb_explosion", FALSE, 0),
                                   [affectedPlayers |-> AffectedPlayers(after, bomb)])
  /\ UNCHANGED <<playerRooms, gameTimers, timeouts, ending, scoring, nextRoomId, connOpen>>
  /\ UNCHANGED voiceVars
  /\ UNCHANGED routeVars
  /\ UNCHANGED authVars

\* player_score received on some open connection: the part of
\* handlePlayerScore before its await.  The score is added and the handler
\* suspends at saveGameScore, holding the player object (its score and
\* whether it is still the room's entry); scored notes the score the player
\* had when the handler suspended.
HandlePlayerScore(roomId, playerId, points) ==
  /\ \E ws \in Conns : connOpen[ws]
  /\ IF roomId \notin DOMAIN rooms \/ ~MapHas(rooms[roomId].players, playerId)
       THEN UNCHANGED <<rooms, scoring>>
       ELSE LET players == rooms[roomId].players
            IN /\ Len(scoring) < MaxScoring
               /\ \A i \in 1..Len(players) :
                    players[i].id = playerId => players[i].score + points <= MaxScore
               /\ rooms' = [rooms EXCEPT ![roomId].players =
                              [i \in 1..Len(players) |->
                                 IF players[i].id = playerId
                                   THEN [players[i] EXCEPT !.score = @ + points]
                                   ELSE players[i]]]
               /\ scoring' = Append(Rescored(scoring, roomId, playerId, points),
                                    [roomId |-> roomId, playerId |-> playerId,
                                     points |-> points, attached |-> TRUE,
                                     score |-> ScoreOf(players, playerId) + points,
                                     scored |-> ScoreOf(players, playerId) + points])
  /\ sent' = <<>>
  /\ UNCHANGED <<playerRooms, gameTimers, timeouts, ending, nextRoomId, connOpen>>
  /\ UNCHANGED voiceVars
  /\ UNCHANGED routeVars
  /\ UNCHANGED authVars

\* handlePlayerScore that tells the room of a failed save instead.
ScoreBroadcastOnlyIfSaved(rs, open, h, saved) ==
  WithData(BroadcastToRoom(rs, open, h.roomId, "player_score", ~saved, 0),
           [playerId |-> h.playerId, points |-> h.points, score |-> h.score])

\* The broadcast at the end of handlePlayerScore; saved tells whether the
\* awaited saveGameScore resolved or threw (the catch only logs).  data.score
\* is the score of the held player object when the handler resumes.
ScoreBroadcast(rs, open, h, saved) ==
  WithData(BroadcastToRoom(rs, open, h.roomId, "player_score", FALSE, 0),
           [playerId |-> h.playerId, points |-> h.points, score |-> h.score])

\* The awaited saveGameScore of a suspended handlePlayerScore settles and the
\* handler runs to its end.
ResumePlayerScore(saved) ==
  /\ \E i \in 1..Len(scoring) :
       /\ scoring' = [j \in 1..(Len(scoring) - 1) |-> IF j < i THEN scoring[j] ELSE scoring[j + 1]]
       /\ sent' = ScoreBroadcast(rooms, connOpen, scoring[i], saved)
  /\ UNCHANGED <<rooms, playerRooms, gameTimers, timeouts, ending, nextRoomId, connOpen>>
  /\ UNCHANGED voiceVars
  /\ UNCHANGED routeVars
  /\ UNCHANGED authVars

\* handlePlayerMove without its test of the room's status.
MoveIgnoredUnlessMember(roomId, playerId) ==
  roomId \notin DOMAIN rooms \/ ~MapHas(rooms[roomId].players, playerId)

\* The early returns of handlePlayerMove.
MoveIgnored(roomId, playerId) ==
  \/ roomId \notin DOMAIN rooms
  \/ rooms[roomId].status # "playing"
  \/ ~MapHas(rooms[roomId].players, playerId)

\* player_move received on some open connection for room roomId, naming
\* player playerId as the mover.
HandlePlayerMove(roomId, playerId, position) ==
  /\ \E ws \in Conns : connOpen[ws]
  /\ IF MoveIgnored(roomId, playerId)
       THEN /\ sent' = <<>>
            /\ UNCHANGED rooms
       ELSE LET players == rooms[roomId].players
                rs == [rooms EXCEPT ![roomId].players =
                         [i \in 1..Len(players) |->
                            IF players[i].id = playerId
                              THEN [players[i] EXCEPT !.position = position]
                              ELSE players[i]]]
            IN /\ rooms' = rs
               /\ sent' = WithData(BroadcastToRoom(rs, connOpen, roomId, "player_move",
                                                    FALSE, playerId),
                                   [position |-> position])
  /\ UNCHANGED <<playerRooms, gameTimers, timeouts, ending, scoring, nextRoomId, connOpen>>
  /\ UNCHANGED voiceVars
  /\ UNCHANGED routeVars
  /\ UNCHANGED authVars

\* game_end received on some open connection for room roomId from player
\* playerId: the switch of handleGameMessage has no case for the type, the
\* default branch logs it and nothing else happens.
HandleGameEnd(roomId, playerId) ==
  /\ \E ws \in Conns : connOpen[ws]
  /\ sent' = <<>>
  /\ UNCHANGED <<gameVars, connOpen>>
  /\ UNCHANGED voiceVars
  /\ UNCHANGED routeVars
  /\ UNCHANGED authVars

\* The case labels of the switch of handleGameMessage.
GameCases ==
  { "room_create", "room_join", "room_leave", "game_start", "player_move", "player_score",
    "game_state_update", "fruit_spawn", "bomb_explosion" }

\* The case labels of the switch of handleVoiceMessage.
VoiceCases ==
  { "voice_room_join", "voice_room_leave", "voice_start_speaking", "voice_stop_speaking",
    "voice_audio_data", "voice_mute", "voice_unmute", "voice_room_create",
    "voice_quality_change", "voice_echo_test", "voice_noise_reduction" }

\* Types of messages that clients send and that one manager or both have no
\* case for (every message of a connection is given to both managers).
OtherTypes == { "game_end", "chat_message", "room_join", "voice_mute" }

\* A default branch that answers the sender with an error.
DefaultReplyError(open, ws) == SendToPlayer(open, ws, "error", TRUE)

\* What the default branch of either switch sends: it logs the type.
DefaultReply(open, ws) == <<>>

\* A message of a type that handleGameMessage has no case for arrives on
\* connection ws.
HandleGameDefault(ws, type) ==
  /\ connOpen[ws]
  /\ type \notin GameCases
  /\ sent' = DefaultReply(connOpen, ws)
  /\ UNCHANGED <<gameVars, connOpen>>
  /\ UNCHANGED voiceVars
  /\ UNCHANGED routeVars
  /\ UNCHANGED authVars

\* A message of a type that handleVoiceMessage has no case for arrives on
\* connection ws.
HandleVoiceDefault(ws, type) ==
  /\ connOpen[ws]
  /\ type \notin VoiceCases
  /\ sent' = DefaultReply(connOpen, ws)
  /\ UNCHANGED <<voiceVars, connOpen>>
  /\ UNCHANGED gameVars
  /\ UNCHANGED routeVars
  /\ UNCHANGED authVars

\* ------------------------------------------------------ liveness sweep
\* The pong handler that leaves the flag as it is.
PongedIgnored(alive, ws) == alive

\* The pong handler of a connection: ws.isAlive = true.
Ponged(alive, ws) == [alive EXCEPT ![ws] = TRUE]

\* A pong frame of connection ws arrives.
HandlePong(ws) ==
  /\ connOpen[ws]
  /\ isAlive' = Ponged(isAlive, ws)
  /\ awaiting' = [awaiting EXCEPT ![ws] = FALSE]
  /\ sent' = <<>>
  /\ UNCHANGED <<closing, connOpen>>
  /\ UNCHANGED gameVars
  /\ UNCHANGED voiceVars
  /\ UNCHANGED authVars

\* The pings of a sweep, in the order of the connections.
RECURSIVE Pings(_, _)
Pings(pinged, ws) ==
  IF ws > NumConns THEN <<>>
  ELSE (IF ws \in pinged THEN <<Msg(ws, "ping", FALSE)>> ELSE <<>>) \o Pings(pinged, ws + 1)

\* One run of the interval callback over the server's clients: a client
\* whose flag is false is terminated (its close event follows), every other
\* has its flag cleared and is pinged.  A client terminated by an earlier
\* sweep whose close event has not run yet is terminated again, to no effect.
PingSweep ==
  /\ LET clients == { ws \in Conns : connOpen[ws] }
         dead == { ws \in clients : isAlive[ws] = FALSE }
     IN /\ connOpen' = [ws \in Conns |-> connOpen[ws] /\ ws \notin dead]
        /\ closing' = closing \cup dead
        /\ isAlive' = [ws \in Conns |-> IF ws \in clients \ dead THEN FALSE ELSE isAlive[ws]]
        /\ awaiting' = [ws \in Conns |-> IF ws \in clients \ dead THEN TRUE ELSE awaiting[ws]]
        /\ sent' = Pings(clients \ dead, 1)
  /\ UNCHANGED gameVars
  /\ UNCHANGED voiceVars
  /\ UNCHANGED authVars

\* The close event of a connection that a sweep terminated, in the game
\* manager (handlePlayerDisconnect).
HandleTerminatedClose(ws) ==
  /\ ws \in closing
  /\ closing' = closing \ {ws}
  /\ IF FirstOwned(ws) = {}
       THEN /\ sent' = <<>>
            /\ UNCHANGED <<rooms, playerRooms, gameTimers, timeouts, scoring>>
       ELSE LET f == CHOOSE x \in FirstOwned(ws) : TRUE
            IN LeaveEffect(connOpen, f[1], f[2])
  /\ UNCHANGED <<ending, nextRoomId, connOpen, isAlive, awaiting>>
  /\ UNCHANGED voiceVars
  /\ UNCHANGED authVars

\* ------------------------------------------------------------ sessions
\* The session token the n-th login generates (`${Date.now()}-${random}`),
\* a string without a colon that no other login generates.
SessionToken(n) == "session_" \o ToString(n)

\* The token a login answers with: the colon-joined string
\* `${user.id}:${user.username}:${sessionToken}`, held as the sequence of its
\* colon-separated fields (the base64 coding and its inverse cancel).
LoginToken(userId, sessionToken) == <<ToString(userId), Usernames[userId], sessionToken>>

\* The token a registration answers with, `${user.id}:${user.username}`.
RegisterToken(userId) == <<ToString(userId), Usernames[userId]>>

\* const [userId, username, sessionToken] = decoded.split(':'): a field the
\* token does not have is undefined.
Decoded(token) ==
  [userId |-> IF Len(token) >= 1 THEN token[1] ELSE "undefined",
   username |-> IF Len(token) >= 2 THEN token[2] ELSE "undefined",
   sessionToken |-> IF Len(token) >= 3 THEN token[3] ELSE "undefined"]

\* parseInt on the user id field of a token.
ParseInt(field) == CHOOSE u \in AuthIds : ToString(u) = field

SessionValidWhateverToken(userId, sessionToken) == TRUE

\* The session test of GET /api/user: the token's session field is the
\* user's activeSessionToken.
SessionValid(userId, sessionToken) == activeSessionToken[userId] = sessionToken

\* POST /api/auth/login up to its awaited updateUser: authenticateUser
\* compares the password, then the session token is generated and the
\* handler suspends.
HandleLogin(userId, password) ==
  /\ IF password # UserPassword
       THEN /\ response' = Answer(<<>>, 401, "INVALID_LOGIN")
            /\ UNCHANGED <<nextSession, logins>>
       ELSE /\ nextSession' = nextSession + 1
            /\ logins' = logins \cup {[userId |-> userId,
                                       sessionToken |-> SessionToken(nextSession + 1)]}
            /\ UNCHANGED response
  /\ UNCHANGED <<activeSessionToken, sessionLog>>
  /\ UNCHANGED <<connOpen, sent>>
  /\ UNCHANGED gameVars
  /\ UNCHANGED voiceVars
  /\ UNCHANGED routeVars

\* The awaited updateUser of the suspended login l completes: the user's row
\* holds the new session token and the handler answers with the token.
ResumeLogin(l) ==
  /\ l \in logins
  /\ logins' = logins \ {l}
  /\ activeSessionToken' = [activeSessionToken EXCEPT ![l.userId] = l.sessionToken]
  /\ sessionLog' = Append(sessionLog, [kind |-> "login", userId |-> l.userId,
                                       token |-> LoginToken(l.userId, l.sessionToken)])
  /\ response' = Answer(<<>>, 200, "LOGIN")
  /\ UNCHANGED nextSession
  /\ UNCHANGED <<connOpen, sent>>
  /\ UNCHANGED gameVars
  /\ UNCHANGED voiceVars
  /\ UNCHANGED routeVars

\* POST /api/auth/logout with the token in its Authorization header: the
\* row of the user the token names has its session token cleared.
HandleLogout(token) ==
  /\ LET userId == ParseInt(Decoded(token).userId)
     IN /\ activeSessionToken' = [activeSessionToken EXCEPT ![userId] = "null"]
        /\ sessionLog' = Append(sessionLog, [kind |-> "logout", userId |-> userId,
                                             token |-> token])
  /\ response' = Answer(token, 200, "LOGOUT")
  /\ UNCHANGED <<nextSession, logins>>
  /\ UNCHANGED <<connOpen, sent>>
  /\ UNCHANGED gameVars
  /\ UNCHANGED voiceVars
  /\ UNCHANGED routeVars

\* GET /api/user with the token in its Authorization header.
HandleUserQuery(token) ==
  /\ LET d == Decoded(token)
     IN response' = IF SessionValid(ParseInt(d.userId), d.sessionToken)
                      THEN Answer(token, 200, "USER")
                      ELSE Answer(token, 401, "MULTIPLE_LOGIN")
  /\ UNCHANGED <<activeSessionToken, nextSession, logins, sessionLog>>
  /\ UNCHANGED <<connOpen, sent>>
  /\ UNCHANGED gameVars
  /\ UNCHANGED voiceVars
  /\ UNCHANGED routeVars

\* ------------------------------------------------------- voice manager
\* sendError of the voice manager.
SendVoiceError(open, ws) == SendToPlayer(open, ws, "voice_room_join", TRUE)

\* broadcastToVoiceRoom over the room store vr.
BroadcastToVoiceRoom(vr, open, roomId, type, exclude) ==
  IF roomId \notin DOMAIN vr THEN <<>>
  ELSE BroadcastTo(open, vr[roomId].users, type, FALSE, exclude)

DeletedWhenEmptyAnyRoom(room) == Len(room.users) = 0

\* removeUserFromRoom's test for deleting the room the user has left: it is
\* temporary and nobody is in it.
DeletedWhenEmpty(room) == room.isTemporary /\ Len(room.users) = 0

\* removeUserFromRoom: the room store, the membership index and the messages
\* sent when it has run on the store vr and the index ur.
RemoveUserFromRoom(vr, ur, open, userId, roomId) ==
  IF roomId \notin DOMAIN vr \/ ~MapHas(vr[roomId].users, userId)
    THEN [rooms |-> vr, userRooms |-> ur, sent |-> <<>>]
    ELSE LET left == [vr EXCEPT ![roomId].users = MapDelete(vr[roomId].users, userId)]
         IN [rooms |-> IF DeletedWhenEmpty(left[roomId])
                         THEN Without(left, roomId) ELSE left,
             userRooms |-> Without(ur, userId),
             sent |-> BroadcastToVoiceRoom(left, open, roomId, "voice_user_status", 0)]

\* The checks of handleRoomJoin, in the code's order; "ok" admits.
VoiceJoinVerdict(roomId, password) ==
  IF roomId \notin DOMAIN voiceRooms THEN "absent"
  ELSE IF Len(voiceRooms[roomId].users) >= voiceRooms[roomId].maxUsers THEN "full"
  ELSE IF voiceRooms[roomId].isPrivate /\ voiceRooms[roomId].password # password THEN "password"
  ELSE "ok"

\* The VoiceUser that handleRoomJoin builds.
JoinedVoiceUser(userId, ws) ==
  [id |-> userId, ws |-> ws, isAdmin |-> userId \in AdminIds, isMuted |-> FALSE,
   isSpeaking |-> FALSE, isDeafened |-> FALSE, volume |-> 100, quality |-> "medium",
   speakerEnabled |-> TRUE]

\* The rest of handleRoomJoin, from the construction of the VoiceUser on: the
\* user is put into the room object the handler looked up at its start (which
\* is the stored room unless that was deleted meanwhile) and into the index.
AdmitUser(vr, ur, open, ws, userId, roomId) ==
  LET after == IF roomId \in DOMAIN vr
                 THEN [vr EXCEPT ![roomId].users = MapSet(vr[roomId].users, JoinedVoiceUser(userId, ws))]
                 ELSE vr
  IN [rooms |-> after,
      userRooms |-> With(ur, userId, roomId),
      sent |-> SendToPlayer(open, ws, "voice_room_join", FALSE)
               \o BroadcastToVoiceRoom(after, open, roomId, "voice_user_status", userId)]

\* voice_room_join received on connection ws from user userId.  With a prior
\* membership the handler evicts it and suspends at the await; without one it
\* runs to its end.
HandleRoomJoin(ws, userId, roomId, password) ==
  /\ connOpen[ws]
  /\ IF VoiceJoinVerdict(roomId, password) # "ok"
       THEN /\ sent' = SendVoiceError(connOpen, ws)
            /\ UNCHANGED <<voiceRooms, userRooms, suspended>>
       ELSE IF userId \in DOMAIN userRooms
         THEN LET r == RemoveUserFromRoom(voiceRooms, userRooms, connOpen, userId, userRooms[userId])
              IN /\ Len(suspended) < MaxSuspended
                 /\ voiceRooms' = r.rooms
                 /\ userRooms' = r.userRooms
                 /\ sent' = r.sent
                 /\ suspended' = Append(suspended, [kind |-> "join", ws |-> ws,
                                                    userId |-> userId, roomId |-> roomId])
         ELSE LET a == AdmitUser(voiceRooms, userRooms, connOpen, ws, userId, roomId)
              IN /\ voiceRooms' = a.rooms
                 /\ userRooms' = a.userRooms
                 /\ sent' = a.sent
                 /\ UNCHANGED suspended
  /\ UNCHANGED <<nextVoiceId, muteHandled, connOpen>>
  /\ UNCHANGED gameVars
  /\ UNCHANGED routeVars
  /\ UNCHANGED authVars

\* The suspended handleRoomJoin at the head of the queue resumes.
ResumeRoomJoin ==
  /\ suspended # <<>> /\ Head(suspended).kind = "join"
  /\ LET h == Head(suspended)
         a == AdmitUser(voiceRooms, userRooms, connOpen, h.ws, h.userId, h.roomId)
     IN /\ voiceRooms' = a.rooms
        /\ userRooms' = a.userRooms
        /\ sent' = a.sent
  /\ suspended' = Tail(suspended)
  /\ UNCHANGED <<nextVoiceId, muteHandled, connOpen>>
  /\ UNCHANGED gameVars
  /\ UNCHANGED routeVars
  /\ UNCHANGED authVars

\* voice_room_leave received on some open connection.
HandleRoomLeave(userId, roomId) ==
  /\ \E ws \in Conns : connOpen[ws]
  /\ LET r == RemoveUserFromRoom(voiceRooms, userRooms, connOpen, userId, roomId)
     IN /\ voiceRooms' = r.rooms
        /\ userRooms' = r.userRooms
        /\ sent' = r.sent
  /\ UNCHANGED <<suspended, nextVoiceId, muteHandled, connOpen>>
  /\ UNCHANGED gameVars
  /\ UNCHANGED routeVars
  /\ UNCHANGED authVars

\* voice_room_create received on connection ws from user userId.  The join the
\* handler then calls is given the room id beside data, not in it, so its
\* lookup of data.roomId finds no room and it answers with the error; the
\* handler suspends at the await of that call.
HandleRoomCreate(ws, userId, inp) ==
  /\ connOpen[ws]
  /\ Len(suspended) < MaxSuspended
  /\ LET roomId == VoiceRoomId(nextVoiceId + 1)
     IN /\ nextVoiceId' = nextVoiceId + 1
        /\ voiceRooms' = With(voiceRooms, roomId,
                              CreateRoom(IF inp.maxUsers = 0 THEN 10 ELSE inp.maxUsers,
                                         inp.isPrivate, inp.password, TRUE))
        /\ suspended' = Append(suspended, [kind |-> "create", ws |-> ws,
                                           userId |-> userId, roomId |-> roomId])
  /\ sent' = SendVoiceError(connOpen, ws)
  /\ UNCHANGED <<userRooms, muteHandled, connOpen>>
  /\ UNCHANGED gameVars
  /\ UNCHANGED routeVars
  /\ UNCHANGED authVars

\* The suspended handleRoomCreate at the head of the queue resumes and sends
\* its confirmation.
ResumeRoomCreate ==
  /\ suspended # <<>> /\ Head(suspended).kind = "create"
  /\ sent' = SendToPlayer(connOpen, Head(suspended).ws, "voice_room_create", FALSE)
  /\ suspended' = Tail(suspended)
  /\ UNCHANGED <<voiceRooms, userRooms, nextVoiceId, muteHandled, connOpen>>
  /\ UNCHANGED gameVars
  /\ UNCHANGED routeVars
  /\ UNCHANGED authVars

\* The close event of connection ws in the voice manager: currentUser is set
\* by a 'voice_user_authenticated' event that nothing emits, so the handler
\* finds it null and removes nobody.
HandleVoiceClose(ws) ==
  /\ connOpen[ws]
  /\ connOpen' = [connOpen EXCEPT ![ws] = FALSE]
  /\ sent' = <<>>
  /\ UNCHANGED voiceVars
  /\ UNCHANGED gameVars
  /\ UNCHANGED routeVars
  /\ UNCHANGED authVars

\* room.users.get(userId) with one field of the user replaced.
UserSet(vr, roomId, userId, user) ==
  [vr EXCEPT ![roomId].users = MapSet(vr[roomId].users, user)]

\* room.users.get(userId).
UserGet(vr, roomId, userId) ==
  LET i == CHOOSE j \in 1..Len(vr[roomId].users) : vr[roomId].users[j].id = userId
  IN vr[roomId].users[i]

\* The early returns shared by the speech handlers: no such room, or the user
\* is not a member of it.
NoSuchMember(roomId, userId) ==
  roomId \notin DOMAIN voiceRooms \/ ~MapHas(voiceRooms[roomId].users, userId)

\* handleMute that leaves the speaking flag as it is.
MutedUserStillSpeaking(user) == [user EXCEPT !.isMuted = TRUE]

\* The two assignments of handleMute.
MutedUser(user) == [user EXCEPT !.isMuted = TRUE, !.isSpeaking = FALSE]

\* voice_mute received on some open connection for user userId of room roomId.
HandleMute(userId, roomId) ==
  /\ \E ws \in Conns : connOpen[ws]
  /\ IF NoSuchMember(roomId, userId)
       THEN /\ sent' = <<>>
            /\ UNCHANGED <<voiceRooms, muteHandled>>
       ELSE LET vr == UserSet(voiceRooms, roomId, userId,
                              MutedUser(UserGet(voiceRooms, roomId, userId)))
            IN /\ voiceRooms' = vr
               /\ muteHandled' = muteHandled \cup {userId}
               /\ sent' = BroadcastToVoiceRoom(vr, connOpen, roomId, "voice_mute", 0)
  /\ UNCHANGED <<userRooms, suspended, nextVoiceId, connOpen>>
  /\ UNCHANGED gameVars
  /\ UNCHANGED routeVars
  /\ UNCHANGED authVars

\* voice_unmute received on some open connection.
HandleUnmute(userId, roomId) ==
  /\ \E ws \in Conns : connOpen[ws]
  /\ muteHandled' = muteHandled \ {userId}
  /\ IF NoSuchMember(roomId, userId)
       THEN /\ sent' = <<>>
            /\ UNCHANGED voiceRooms
       ELSE LET vr == UserSet(voiceRooms, roomId, userId,
                              [UserGet(voiceRooms, roomId, userId) EXCEPT !.isMuted = FALSE])
            IN /\ voiceRooms' = vr
               /\ sent' = BroadcastToVoiceRoom(vr, connOpen, roomId, "voice_unmute", 0)
  /\ UNCHANGED <<userRooms, suspended, nextVoiceId, connOpen>>
  /\ UNCHANGED gameVars
  /\ UNCHANGED routeVars
  /\ UNCHANGED authVars

\* voice_start_speaking received on some open connection.
HandleStartSpeaking(userId, roomId) ==
  /\ \E ws \in Conns : connOpen[ws]
  /\ IF NoSuchMember(roomId, userId) \/ UserGet(voiceRooms, roomId, userId).isMuted
       THEN /\ sent' = <<>>
            /\ UNCHANGED voiceRooms
       ELSE LET vr == UserSet(voiceRooms, roomId, userId,
                              [UserGet(voiceRooms, roomId, userId) EXCEPT !.isSpeaking = TRUE])
            IN /\ voiceRooms' = vr
               /\ sent' = BroadcastToVoiceRoom(vr, connOpen, roomId, "voice_start_speaking", userId)
  /\ UNCHANGED <<userRooms, suspended, nextVoiceId, muteHandled, connOpen>>
  /\ UNCHANGED gameVars
  /\ UNCHANGED routeVars
  /\ UNCHANGED authVars

\* voice_stop_speaking received on some open connection.
HandleStopSpeaking(userId, roomId) ==
  /\ \E ws \in Conns : connOpen[ws]
  /\ IF NoSuchMember(roomId, userId)
       THEN /\ sent' = <<>>
            /\ UNCHANGED voiceRooms
       ELSE LET vr == UserSet(voiceRooms, roomId, userId,
                              [UserGet(voiceRooms, roomId, userId) EXCEPT !.isSpeaking = FALSE])
            IN /\ voiceRooms' = vr
               /\ sent' = BroadcastToVoiceRoom(vr, connOpen, roomId, "voice_stop_speaking", userId)
  /\ UNCHANGED <<userRooms, suspended, nextVoiceId, muteHandled, connOpen>>
  /\ UNCHANGED gameVars
  /\ UNCHANGED routeVars
  /\ UNCHANGED authVars

\* applyVolumeControl: the audio data with the volume multiplier volume / 100
\* put into it, the multiplier held as <<numerator, denominator>>.
ApplyVolumeControl(volume) == [volume |-> <<volume, 100>>]

\* The forwarding test of handleAudioData without the speaker flag.
HearsUnlessDeafened(user) == ~user.isDeafened

\* The members handleAudioData forwards to, the sender aside.
Hears(user) == ~user.isDeafened /\ user.speakerEnabled

\* The forEach of handleAudioData: one voice_audio_data for every member
\* other than the sender that hears and whose connection is open, its
\* audioData scaled by that member's volume.
ForwardedAudio(users, open, senderId) ==
  LET to == SelectSeq(users, LAMBDA user : user.id # senderId /\ Hears(user) /\ open[user.ws])
  IN [i \in 1..Len(to) |->
        [to |-> to[i].ws, type |-> "voice_audio_data", error |-> FALSE,
         data |-> [audioData |-> ApplyVolumeControl(to[i].volume), senderId |-> senderId]]]

\* voice_audio_data received on some open connection.
HandleAudioData(userId, roomId) ==
  /\ \E ws \in Conns : connOpen[ws]
  /\ sent' = IF NoSuchMember(roomId, userId) \/ UserGet(voiceRooms, roomId, userId).isMuted
               THEN <<>>
               ELSE ForwardedAudio(voiceRooms[roomId].users, connOpen, userId)
  /\ UNCHANGED <<voiceVars, connOpen>>
  /\ UNCHANGED gameVars
  /\ UNCHANGED routeVars
  /\ UNCHANGED authVars

\* voice_quality_change received on some open connection: the member's
\* quality and volume are set (a falsy volume keeps the former one) and the
\* member is told.
HandleQualityChange(userId, roomId, inp) ==
  /\ \E ws \in Conns : connOpen[ws]
  /\ IF NoSuchMember(roomId, userId)
       THEN /\ sent' = <<>>
            /\ UNCHANGED voiceRooms
       ELSE LET user == UserGet(voiceRooms, roomId, userId)
                after == [user EXCEPT !.quality = inp.quality,
                                      !.volume = IF inp.volume = 0 THEN @ ELSE inp.volume]
            IN /\ voiceRooms' = UserSet(voiceRooms, roomId, userId, after)
               /\ sent' = WithData(SendToPlayer(connOpen, user.ws, "voice_quality_change", FALSE),
                                   [quality |-> after.quality, volume |-> after.volume])
  /\ UNCHANGED <<userRooms, suspended, nextVoiceId, muteHandled, connOpen>>
  /\ UNCHANGED gameVars
  /\ UNCHANGED routeVars
  /\ UNCHANGED authVars

\* handleNoiseReduction open to every member.
MayChangeSettingsAnyMember(user) == TRUE

\* The test of handleNoiseReduction on the member that asks.
MayChangeSettings(user) == user.isAdmin

\* voice_noise_reduction received on some open connection, naming user userId
\* of room roomId as the requester.
HandleNoiseReduction(userId, roomId, enabled) ==
  /\ \E ws \in Conns : connOpen[ws]
  /\ IF NoSuchMember(roomId, userId) \/ ~MayChangeSettings(UserGet(voiceRooms, roomId, userId))
       THEN /\ sent' = <<>>
            /\ UNCHANGED voiceRooms
       ELSE LET vr == [voiceRooms EXCEPT ![roomId].noiseReduction = enabled]
            IN /\ voiceRooms' = vr
               /\ sent' = WithData(BroadcastToVoiceRoom(vr, connOpen, roomId,
                                                         "voice_room_settings", 0),
                                   [noiseReduction |-> enabled])
  /\ UNCHANGED <<userRooms, suspended, nextVoiceId, muteHandled, connOpen>>
  /\ UNCHANGED gameVars
  /\ UNCHANGED routeVars
  /\ UNCHANGED authVars

VoiceRoomIds == {"general", "gaming"} \cup { VoiceRoomId(n) : n \in 1..MaxVoiceRooms }

\* --------------------------------------------------------------- specs
\* One game room, every message of the game manager that the room's
\* membership, status, timer and gameState depend on.
Next ==
  \/ \E p \in Ids, inp \in CreateInputs :
       nextRoomId < MaxRooms /\ CreateGameRoom(ConnOf(p), p, inp)
  \/ \E p \in Ids, r \in 1..MaxRooms, pw \in Passwords :
       JoinGameRoom(ConnOf(p), p, r, pw, SomePosition)
  \/ \E p \in Ids, r \in 1..MaxRooms : LeaveGameRoom(r, p)
  \/ \E ws \in Conns : HandlePlayerDisconnect(ws)
  \/ \E p \in Ids, r \in 1..MaxRooms : StartGame(r, p)
  \/ \E r \in 1..MaxRooms : GameTimeout(r)
  \/ EndGameBroadcast
  \/ \E r \in 1..MaxRooms : HandleFruitSpawn(r, "apple")
  \/ \E r \in 1..MaxRooms, u \in StateUpdates : BroadcastGameState(r, u)
  \/ \E p \in Ids, r \in 1..MaxRooms : HandleGameEnd(r, p)

Spec == Init /\ [][Next]_vars

\* One game room in play: explosions and scores among members at their
\* drawn positions.
PlayNext ==
  \/ \E p \in 1..PlayIds, inp \in {i \in CreateInputs : i.gameType = "fruit_catching"} :
       nextRoomId < MaxRooms /\ CreateGameRoom(ConnOf(p), p, inp)
  \/ \E p \in 1..PlayIds, r \in 1..MaxRooms, position \in JoinPositions :
       JoinGameRoom(ConnOf(p), p, r, "none", position)
  \/ \E p \in 1..PlayIds, r \in 1..MaxRooms : LeaveGameRoom(r, p)
  \/ \E r \in 1..MaxRooms, bomb \in BombInputs : HandleBombExplosion(r, bomb)
  \/ \E p \in 1..PlayIds, r \in 1..MaxRooms, k \in Points :
       Len(scoring) < PlayScoring /\ HandlePlayerScore(r, p, k)
  \/ \E saved \in BOOLEAN : ResumePlayerScore(saved)

PlaySpec == Init /\ [][PlayNext]_vars

\* One game room whose members score: a player_score can be handled while
\* the handler of an earlier one is suspended at its save.
ScoreNext ==
  \/ \E p \in 1..PlayIds, inp \in {i \in CreateInputs : i.gameType = "fruit_catching"} :
       nextRoomId < MaxRooms /\ CreateGameRoom(ConnOf(p), p, inp)
  \/ \E p \in 1..PlayIds, r \in 1..MaxRooms :
       JoinGameRoom(ConnOf(p), p, r, "none", SomePosition)
  \/ \E p \in 1..PlayIds, r \in 1..MaxRooms : LeaveGameRoom(r, p)
  \/ \E p \in 1..PlayIds, r \in 1..MaxRooms, k \in Points : HandlePlayerScore(r, p, k)
  \/ \E saved \in BOOLEAN : ResumePlayerScore(saved)

ScoreSpec == Init /\ [][ScoreNext]_vars

\* endGame's ranking is a function of the member list it finds.  RankingSpec
\* applies endGame to every member list up to the bounds, whatever flow of
\* joins and scores would be needed to produce it: the members in Map order,
\* each with an id and a score.
RankingInputs ==
  UNION { { m \in [1..n -> [id : Ids, score : 0..MaxScore]] :
              \A i, j \in 1..n : m[i].id = m[j].id => i = j } : n \in 1..MaxRanked }

\* A playing room with its timer armed whose members are those of the list m.
RankingInit ==
  \E m \in RankingInputs :
    /\ rooms = (1 :> [gameType |-> "fruit_catching",
                      players |-> [i \in 1..Len(m) |->
                                     [id |-> m[i].id, ws |-> ConnOf(m[i].id), isHost |-> i = 1,
                                      isReady |-> TRUE, score |-> m[i].score, lives |-> 3,
                                      position |-> <<50, 50>>]],
                      gameState |-> InitializeGameState("fruit_catching"),
                      maxPlayers |-> 4, isPrivate |-> FALSE, password |-> "none",
                      status |-> "playing", hostId |-> m[1].id])
    /\ playerRooms = [p \in { m[i].id : i \in 1..Len(m) } |-> 1]
    /\ gameTimers = (1 :> <<1, 1>>)
    /\ timeouts = { <<1, 1>> }
    /\ nextRoomId = 1
    /\ ending = <<>> /\ scoring = <<>>
    /\ voiceRooms = DefaultRooms /\ userRooms = [u \in {} |-> ""]
    /\ suspended = <<>> /\ nextVoiceId = 0 /\ muteHandled = {}
    /\ Connected
  /\ SignedOut
    /\ sent = <<>>

RankingNext ==
  \/ \E r \in 1..MaxRooms : GameTimeout(r)
  \/ EndGameBroadcast

RankingSpec == RankingInit /\ [][RankingNext]_vars

\* handlePlayerMove's effect is a function of the room it finds.  MoveSpec
\* applies it to the playing rooms of RankingInit with no score yet, of one
\* to MaxRanked members, and to what those rooms become when the game times
\* out and connections close.
MoveInit ==
  /\ RankingInit
  /\ \A r \in DOMAIN rooms : \A i \in 1..Len(rooms[r].players) : rooms[r].players[i].score = 0

MoveNext ==
  \/ \E p \in Ids, r \in 1..MaxRooms, position \in MovePositions : HandlePlayerMove(r, p, position)
  \/ \E r \in 1..MaxRooms : GameTimeout(r)
  \/ EndGameBroadcast
  \/ \E ws \in Conns : HandlePlayerDisconnect(ws)

MoveSpec == MoveInit /\ [][MoveNext]_vars

\* Every timer handle a run of Spec can arm.
TimerHandles == (1..MaxRooms) \X (1..MaxTimers)

\* The callback of the timer with handle h runs.
TimerFires(h) == h \in timeouts /\ GameTimeout(h[1]) /\ h \notin timeouts'

\* Spec with time passing: a timer that stays armed fires (a timer that is
\* cleared does not), and an awaited saveGameScore settles.
TimedSpec ==
  /\ Spec
  /\ \A h \in TimerHandles : WF_vars(TimerFires(h))
  /\ WF_vars(EndGameBroadcast)

\* Several game rooms at once: the room lifecycle alone, rooms created public.
LobbyNext ==
  \/ \E p \in 1..LobbyIds, inp \in {i \in CreateInputs : ~i.isPrivate} :
       nextRoomId < LobbyRooms /\ CreateGameRoom(ConnOf(p), p, inp)
  \/ \E p \in 1..LobbyIds, r \in 1..LobbyRooms, pw \in Passwords :
       JoinGameRoom(ConnOf(p), p, r, pw, SomePosition)
  \/ \E p \in 1..LobbyIds, r \in 1..LobbyRooms : LeaveGameRoom(r, p)
  \/ \E ws \in Conns : HandlePlayerDisconnect(ws)
  \/ \E p \in 1..LobbyIds, r \in 1..LobbyRooms : StartGame(r, p)
  \/ \E r \in 1..LobbyRooms : GameTimeout(r)
  \/ EndGameBroadcast

LobbySpec == Init /\ [][LobbyNext]_vars

\* The voice manager.
VoiceNext ==
  \/ \E u \in 1..VoiceIds, r \in VoiceRoomIds, pw \in Passwords :
       HandleRoomJoin(ConnOf(u), u, r, pw)
  \/ ResumeRoomJoin
  \/ \E u \in 1..VoiceIds, r \in VoiceRoomIds : HandleRoomLeave(u, r)
  \/ \E u \in 1..VoiceIds, inp \in VoiceCreateInputs :
       nextVoiceId < MaxVoiceRooms /\ HandleRoomCreate(ConnOf(u), u, inp)
  \/ ResumeRoomCreate
  \/ \E ws \in Conns : HandleVoiceClose(ws)

VoiceSpec == Init /\ [][VoiceNext]_vars

\* The tokens a client can hold: those that logins have answered with and
\* those of the registrations.
HeldTokens ==
  { sessionLog[i].token : i \in { j \in 1..Len(sessionLog) : sessionLog[j].kind = "login" } }
    \cup { RegisterToken(u) : u \in AuthIds }

\* The session routes of the server.
SessionNext ==
  \/ \E u \in AuthIds, pw \in Passwords : nextSession < MaxLogins /\ HandleLogin(u, pw)
  \/ \E l \in logins : Len(sessionLog) < MaxSessionLog /\ ResumeLogin(l)
  \/ \E token \in HeldTokens : Len(sessionLog) < MaxSessionLog /\ HandleLogout(token)
  \/ \E token \in HeldTokens : HandleUserQuery(token)

SessionSpec == Init /\ [][SessionNext]_vars

\* The rooms the messages of SpeechSpec name.
SpeechRooms == {"general"}

\* The voice manager's speech handlers on a permanent room.
SpeechNext ==
  \/ \E u \in 1..VoiceIds, r \in SpeechRooms : HandleRoomJoin(ConnOf(u), u, r, "none")
  \/ ResumeRoomJoin
  \/ \E u \in 1..VoiceIds, r \in SpeechRooms : HandleRoomLeave(u, r)
  \/ \E u \in 1..VoiceIds, r \in SpeechRooms : HandleMute(u, r)
  \/ \E u \in 1..VoiceIds, r \in SpeechRooms : HandleUnmute(u, r)
  \/ \E u \in 1..VoiceIds, r \in SpeechRooms : HandleStartSpeaking(u, r)
  \/ \E u \in 1..VoiceIds, r \in SpeechRooms : HandleStopSpeaking(u, r)
  \/ \E u \in 1..VoiceIds, r \in SpeechRooms : HandleAudioData(u, r)

SpeechSpec == Init /\ [][SpeechNext]_vars

\* The voice manager's room settings on a permanent room, among members
\* that come and go.
SettingsNext ==
  \/ \E u \in 1..VoiceIds, r \in SpeechRooms : HandleRoomJoin(ConnOf(u), u, r, "none")
  \/ ResumeRoomJoin
  \/ \E u \in 1..VoiceIds, r \in SpeechRooms : HandleRoomLeave(u, r)
  \/ \E u \in 1..VoiceIds, r \in SpeechRooms, enabled \in BOOLEAN :
       HandleNoiseReduction(u, r, enabled)
  \/ \E ws \in Conns : HandleVoiceClose(ws)

SettingsSpec == Init /\ [][SettingsNext]_vars

\* The data of the voice_quality_change messages of VolumeSpec: a volume of
\* 0, one inside the range, one above it and one below it.
VolumeInputs ==
  { [quality |-> "high", volume |-> v] : v \in {0, 50, 150, -10} }

\* The voice manager's per-user audio settings on a permanent room, among
\* members that come and go.
VolumeNext ==
  \/ \E u \in 1..VoiceIds, r \in SpeechRooms : HandleRoomJoin(ConnOf(u), u, r, "none")
  \/ ResumeRoomJoin
  \/ \E u \in 1..VoiceIds, r \in SpeechRooms : HandleRoomLeave(u, r)
  \/ \E u \in 1..VoiceIds, r \in SpeechRooms, inp \in VolumeInputs :
       HandleQualityChange(u, r, inp)

VolumeSpec == Init /\ [][VolumeNext]_vars

\* What a member of the room that AudioSpec starts from can be: hearing,
\* deafened, with its speaker off, or muted.
ListenerKinds == {"hearing", "deafened", "speaker_off", "muted"}

\* handleAudioData's forwarding is a function of the member list it finds.
\* AudioSpec applies it to room general holding every list of members, in
\* the order of their ids, of every kind.
AudioInputs ==
  UNION { { m \in [1..n -> [id : Ids, kind : ListenerKinds]] :
              \A i, j \in 1..n : i < j => m[i].id < m[j].id } : n \in 1..NumIds }

AudioInit ==
  \E m \in AudioInputs :
    /\ voiceRooms =
         [DefaultRooms EXCEPT !["general"].users =
            [i \in 1..Len(m) |->
               [JoinedVoiceUser(m[i].id, ConnOf(m[i].id)) EXCEPT
                  !.isDeafened = (m[i].kind = "deafened"),
                  !.speakerEnabled = (m[i].kind # "speaker_off"),
                  !.isMuted = (m[i].kind = "muted")]]]
    /\ userRooms = [u \in { m[i].id : i \in 1..Len(m) } |-> "general"]
    /\ muteHandled = { m[i].id : i \in { j \in 1..Len(m) : m[j].kind = "muted" } }
    /\ suspended = <<>> /\ nextVoiceId = 0
    /\ rooms = [r \in {} |-> 0] /\ playerRooms = [p \in {} |-> 0]
    /\ gameTimers = [r \in {} |-> 0] /\ timeouts = {}
    /\ ending = <<>> /\ scoring = <<>> /\ nextRoomId = 0
    /\ Connected
  /\ SignedOut
    /\ sent = <<>>

AudioNext ==
  \/ \E u \in Ids, r \in SpeechRooms : HandleAudioData(u, r)
  \/ \E u \in Ids, r \in SpeechRooms, inp \in QualityInputs : HandleQualityChange(u, r, inp)
  \/ \E ws \in Conns : HandleVoiceClose(ws)

AudioSpec == AudioInit /\ [][AudioNext]_vars

\* The liveness sweep over connections that own the members of a game room.
SweepNext ==
  \/ \E p \in 1..PlayIds, inp \in {i \in CreateInputs : i.gameType = "fruit_catching"} :
       nextRoomId < MaxRooms /\ CreateGameRoom(ConnOf(p), p, inp)
  \/ \E p \in 1..PlayIds, r \in 1..MaxRooms :
       JoinGameRoom(ConnOf(p), p, r, "none", SomePosition)
  \/ PingSweep
  \/ \E ws \in Conns : HandlePong(ws)
  \/ \E ws \in Conns : HandleTerminatedClose(ws)
  \/ \E ws \in Conns : HandlePlayerDisconnect(ws)

SweepSpec == Init /\ [][SweepNext]_vars

\* Messages of types without a case, among a game room that is created and
\* started and a voice room that fills.
DefaultNext ==
  \/ \E p \in 1..PlayIds, inp \in {i \in CreateInputs : i.gameType = "fruit_catching"} :
       nextRoomId < MaxRooms /\ CreateGameRoom(ConnOf(p), p, inp)
  \/ \E p \in 1..PlayIds, r \in 1..MaxRooms : StartGame(r, p)
  \/ \E u \in 1..VoiceIds, r \in SpeechRooms : HandleRoomJoin(ConnOf(u), u, r, "none")
  \/ ResumeRoomJoin
  \/ \E ws \in Conns, type \in OtherTypes : HandleGameDefault(ws, type)
  \/ \E ws \in Conns, type \in OtherTypes : HandleVoiceDefault(ws, type)
  \/ \E p \in 1..PlayIds, r \in 1..MaxRooms : HandleGameEnd(r, p)

DefaultSpec == Init /\ [][DefaultNext]_vars

\* Both managers, one of them at rest: they share no room, index or timer, and
\* a message's type selects the manager that acts on it.
GameAtRest == rooms = [r \in {} |-> 0] /\ nextRoomId = 0

VoiceAtRest ==
  voiceRooms = DefaultRooms /\ userRooms = [u \in {} |-> ""] /\ suspended = <<>> /\ nextVoiceId = 0

ManagersNext ==
  \/ \E p \in Ids, inp \in CreateInputs :
       VoiceAtRest /\ nextRoomId < MaxRooms /\ CreateGameRoom(ConnOf(p), p, inp)
  \/ \E p \in Ids, r \in 1..MaxRooms, pw \in Passwords :
       VoiceAtRest /\ JoinGameRoom(ConnOf(p), p, r, pw, SomePosition)
  \/ \E p \in Ids, r \in 1..MaxRooms : VoiceAtRest /\ LeaveGameRoom(r, p)
  \/ \E ws \in Conns : VoiceAtRest /\ HandlePlayerDisconnect(ws)
  \/ \E p \in Ids, r \in 1..MaxRooms : VoiceAtRest /\ StartGame(r, p)
  \/ \E r \in 1..MaxRooms : VoiceAtRest /\ GameTimeout(r)
  \/ VoiceAtRest /\ EndGameBroadcast
  \/ \E r \in 1..MaxRooms : VoiceAtRest /\ HandleFruitSpawn(r, "apple")
  \/ \E u \in 1..VoiceIds, r \in VoiceRoomIds, pw \in Passwords :
       GameAtRest /\ HandleRoomJoin(ConnOf(u), u, r, pw)
  \/ GameAtRest /\ ResumeRoomJoin
  \/ \E u \in 1..VoiceIds, r \in VoiceRoomIds : GameAtRest /\ HandleRoomLeave(u, r)
  \/ \E u \in 1..VoiceIds, inp \in VoiceCreateInputs :
       GameAtRest /\ nextVoiceId < MaxVoiceRooms /\ HandleRoomCreate(ConnOf(u), u, inp)
  \/ GameAtRest /\ ResumeRoomCreate
  \/ \E ws \in Conns : GameAtRest /\ HandleVoiceClose(ws)

ManagersSpec == Init /\ [][ManagersNext]_vars

\* Rooms of either manager, the other at rest, that fill while connections
\* close: what the broadcasts of the two managers find.
BroadcastNext ==
  \/ \E p \in 1..LobbyIds, inp \in {i \in CreateInputs : i.gameType = "fruit_catching"} :
       VoiceAtRest /\ nextRoomId < LobbyRooms /\ CreateGameRoom(ConnOf(p), p, inp)
  \/ \E p \in 1..LobbyIds, r \in 1..LobbyRooms :
       VoiceAtRest /\ JoinGameRoom(ConnOf(p), p, r, "none", SomePosition)
  \/ \E ws \in Conns : VoiceAtRest /\ HandlePlayerDisconnect(ws)
  \/ \E u \in Ids, r \in {"general", "gaming"} :
       GameAtRest /\ HandleRoomJoin(ConnOf(u), u, r, "none")
  \/ GameAtRest /\ ResumeRoomJoin
  \/ \E ws \in Conns : GameAtRest /\ HandleVoiceClose(ws)

BroadcastSpec == Init /\ [][BroadcastNext]_vars

\* -------------------------------------------------------------- claims
AllReady(room) == \A i \in 1..Len(room.players) : room.players[i].isReady

Hosts(room) == { i \in 1..Len(room.players) : room.players[i].isHost }

\* C1: every game room in the store has exactly one member whose isHost flag
\* is true, also after a member joins the room it is already in.
ExactlyOneHost == \A r \in DOMAIN rooms : Cardinality(Hosts(rooms[r])) = 1

\* C2: no player id is a member of two game rooms at once.
NoPlayerInTwoGameRooms ==
  \A r1 \in DOMAIN rooms, r2 \in DOMAIN rooms :
    r1 # r2 => MemberIds(rooms[r1].players) \cap MemberIds(rooms[r2].players) = {}

\* C3: no user id is a member of two voice rooms of the room store at once,
\* whatever handler runs while a join is suspended at its await.
NoUserInTwoVoiceRooms ==
  \A r1 \in DOMAIN voiceRooms, r2 \in DOMAIN voiceRooms :
    r1 # r2 => MemberIds(voiceRooms[r1].users) \cap MemberIds(voiceRooms[r2].users) = {}

\* C4: a game_start request moves a room to playing only if the requester is
\* the room's hostId and every member is ready; otherwise the rooms (status,
\* gameState, members) and the timers are unchanged, and a request of the host
\* with a member not ready sends the error to the room's members and nothing else.
StartOnlyByReadyHost ==
  [][ /\ \A r \in 1..MaxRooms, p \in Ids :
           (StartGame(r, p) /\ ~(r \in DOMAIN rooms /\ rooms[r].hostId = p /\ AllReady(rooms[r])))
             => /\ UNCHANGED <<rooms, playerRooms, gameTimers, timeouts, ending>>
                /\ (r \in DOMAIN rooms /\ rooms[r].hostId = p)
                     => sent' = BroadcastToRoom(rooms, connOpen, r, "game_start", TRUE, 0)
      /\ \A r \in DOMAIN rooms' :
           (rooms'[r].status = "playing" /\ (r \notin DOMAIN rooms \/ rooms[r].status # "playing"))
             => r \in DOMAIN rooms /\ AllReady(rooms[r])
    ]_vars

\* C4 witness: the host's start was refused in a finished room that holds a
\* spawned fruit and a member who is not ready; the error went to the room.
StartRefusedNotReady ==
  \E r \in DOMAIN rooms :
    /\ rooms[r].status = "finished"
    /\ ~AllReady(rooms[r])
    /\ "fruits" \in DOMAIN rooms[r].gameState /\ rooms[r].gameState.fruits # <<>>
    /\ sent # <<>>
    /\ \A i \in 1..Len(sent) : sent[i].type = "game_start" /\ sent[i].error

StatusEdges ==
  { <<"waiting", "playing">>, <<"playing", "paused">>, <<"paused", "playing">>,
    <<"playing", "finished">>, <<"paused", "finished">> }

\* C5: a room's status changes only along waiting->playing, playing<->paused,
\* playing/paused->finished; finished never changes again, and a game_start
\* has no effect on a room that is playing or finished.
StatusFollowsEdges ==
  [][ /\ \A r \in DOMAIN rooms \cap DOMAIN rooms' :
           rooms[r].status = rooms'[r].status
             \/ <<rooms[r].status, rooms'[r].status>> \in StatusEdges
      /\ \A r \in DOMAIN rooms, p \in Ids :
           (StartGame(r, p) /\ rooms[r].status \in {"playing", "finished"})
             => UNCHANGED <<rooms, gameTimers, timeouts>>
    ]_vars

\* C6: no game room and no voice room with a positive capacity ever holds
\* more members than its capacity.
CapacityRespected ==
  /\ \A r \in DOMAIN rooms :
       rooms[r].maxPlayers > 0 => Len(rooms[r].players) <= rooms[r].maxPlayers
  /\ \A r \in DOMAIN voiceRooms :
       voiceRooms[r].maxUsers > 0 => Len(voiceRooms[r].users) <= voiceRooms[r].maxUsers

GameJoinRejected(r, pw) ==
  \/ r \notin DOMAIN rooms
  \/ rooms[r].status = "playing"
  \/ Len(rooms[r].players) >= rooms[r].maxPlayers
  \/ rooms[r].isPrivate /\ rooms[r].password # pw

VoiceJoinRejected(r, pw) ==
  \/ r \notin DOMAIN voiceRooms
  \/ Len(voiceRooms[r].users) >= voiceRooms[r].maxUsers
  \/ voiceRooms[r].isPrivate /\ voiceRooms[r].password # pw

\* C7: a join request that is rejected (room absent, full, password mismatch,
\* or, for a game room, playing) sends exactly one error event, to the
\* requesting connection, and changes no room, member set or index entry.
RejectedJoinOnlyAnswers ==
  [][ /\ \A p \in Ids, r \in 1..MaxRooms, pw \in Passwords :
           (JoinGameRoom(ConnOf(p), p, r, pw, SomePosition) /\ GameJoinRejected(r, pw))
             => /\ sent' = <<Msg(ConnOf(p), "room_join", TRUE)>>
                /\ UNCHANGED <<rooms, playerRooms, gameTimers, timeouts, ending>>
      /\ \A u \in 1..VoiceIds, r \in VoiceRoomIds, pw \in Passwords :
           (HandleRoomJoin(ConnOf(u), u, r, pw) /\ VoiceJoinRejected(r, pw))
             => /\ sent' = <<Msg(ConnOf(u), "voice_room_join", TRUE)>>
                /\ UNCHANGED <<voiceRooms, userRooms, suspended>>
    ]_vars

\* C7 witness: the one error of a join to a full game room has been sent.
JoinRefusedFull ==
  /\ \E c \in Conns : sent = <<Msg(c, "room_join", TRUE)>>
  /\ \E r \in DOMAIN rooms :
       rooms[r].status # "playing" /\ Len(rooms[r].players) >= rooms[r].maxPlayers

\* The connection that owns member playerId of a room.
OwnerOf(room, playerId) ==
  LET i == CHOOSE j \in 1..Len(room.players) : room.players[j].id = playerId
  IN room.players[i].ws

\* The host of room r leaves (room_leave naming it) or disconnects (the
\* connection that owns it closes) in this step.
HostDeparts(r) ==
  \/ LeaveGameRoom(r, rooms[r].hostId)
  \/ HandlePlayerDisconnect(OwnerOf(rooms[r], rooms[r].hostId))

\* Room r is still in the store, its members are the former ones without the
\* former host, the earliest-joined of them is the host (hostId and isHost)
\* and no other member has isHost.
HostSucceeded(r) ==
  /\ r \in DOMAIN rooms'
  /\ LET remaining == MapDelete(rooms[r].players, rooms[r].hostId)
     IN /\ Len(rooms'[r].players) = Len(remaining)
        /\ \A i \in 1..Len(remaining) : rooms'[r].players[i].id = remaining[i].id
        /\ rooms'[r].hostId = remaining[1].id
        /\ Hosts(rooms'[r]) = {1}

\* C8: when the host of a room with two or more members leaves or
\* disconnects, the room stays, the earliest-joined remaining member becomes
\* host (hostId and isHost), and no other remaining member has isHost.
HostDepartureTransfers ==
  [][ \A r \in DOMAIN rooms :
        ( /\ MapHas(rooms[r].players, rooms[r].hostId)
          /\ Len(rooms[r].players) >= 2
          /\ HostDeparts(r) )
          => HostSucceeded(r)
    ]_vars

\* The part of C8 that the leave path keeps: whenever a step takes the host
\* out of a room of two or more, the earliest-joined remaining member is the
\* one host afterwards.
HostRemovalTransfers ==
  [][ \A r \in DOMAIN rooms :
        ( /\ MapHas(rooms[r].players, rooms[r].hostId)
          /\ Len(rooms[r].players) >= 2
          /\ (r \notin DOMAIN rooms' \/ ~MapHas(rooms'[r].players, rooms[r].hostId)) )
          => HostSucceeded(r)
    ]_vars

\* C9: no game room of the store has zero members, and no timer is held or
\* scheduled for a room that is not in the store.
NoEmptyGameRoom ==
  /\ \A r \in DOMAIN rooms : Len(rooms[r].players) >= 1
  /\ DOMAIN gameTimers \subseteq DOMAIN rooms
  /\ \A h \in timeouts : h[1] \in DOMAIN rooms

\* C9 witness: the last member has left a room whose game had timed out (its
\* endGame is still suspended); the store is empty and no timer is left.
LastMemberLeft ==
  /\ nextRoomId >= 1 /\ DOMAIN rooms = {}
  /\ DOMAIN playerRooms = {}
  /\ ending # <<>>

\* C10: a timer is armed for room r exactly when r is in the store with
\* status playing, it is the one the timer table holds, and there is at most
\* one per room.
TimerIffPlaying ==
  /\ \A h \in timeouts : h[1] \in DOMAIN rooms /\ rooms[h[1]].status = "playing"
  /\ \A r \in DOMAIN rooms :
       rooms[r].status = "playing"
         => /\ r \in DOMAIN gameTimers
            /\ { h \in timeouts : h[1] = r } = { gameTimers[r] }
  /\ \A r \in DOMAIN gameTimers : r \in DOMAIN rooms /\ rooms[r].status = "playing"

\* C10 witness: a game that timed out was started again: the room is playing
\* with its timer armed while the earlier endGame is still suspended.
TimerArmedAgain ==
  \E r \in DOMAIN rooms :
    /\ rooms[r].status = "playing"
    /\ r \in DOMAIN gameTimers /\ gameTimers[r] \in timeouts
    /\ ending # <<>>

\* C11: with timers that fire, every room that is playing eventually stops
\* being so: it is finished (its timer ended the game) or it is gone from the
\* store (its last member left).
PlayingEnds ==
  \A r \in 1..MaxRooms :
    (r \in DOMAIN rooms /\ rooms[r].status = "playing")
      ~> (r \notin DOMAIN rooms \/ rooms[r].status = "finished")

\* C12: right after a game_start that starts the game, the room's gameState
\* is the initial template of its game type, whatever fruit_spawn and
\* game_state_update did to it before.
GameStartResetsState ==
  [][ \A r \in 1..MaxRooms, p \in Ids :
        (StartGame(r, p) /\ StartVerdict(r, p) = "start")
          => /\ rooms'[r].status = "playing"
             /\ rooms'[r].gameState = InitializeGameState(rooms[r].gameType)
    ]_vars

\* C12 witness: a room was started again after an earlier round (whose
\* endGame is still suspended): the start was announced and the gameState is
\* the template.
RestartedClean ==
  \E r \in DOMAIN rooms :
    /\ rooms[r].status = "playing"
    /\ rooms[r].gameState = InitializeGameState(rooms[r].gameType)
    /\ ending # <<>>
    /\ sent # <<>>
    /\ \A i \in 1..Len(sent) : sent[i].type = "game_start" /\ ~sent[i].error

\* C13: a game_end message from the host of a playing room makes the room
\* finished, cancels its timer and has the ranking broadcast.
GameEndByHostFinishes ==
  [][ \A r \in DOMAIN rooms, p \in Ids :
        (HandleGameEnd(r, p) /\ rooms[r].hostId = p /\ rooms[r].status = "playing")
          => /\ rooms'[r].status = "finished"
             /\ r \notin DOMAIN gameTimers'
             /\ \A h \in timeouts' : h[1] # r
             /\ \/ \E i \in 1..Len(ending') : ending'[i].roomId = r
                \/ \E i \in 1..Len(sent') : sent'[i].type = "game_end"
    ]_vars

\* C14: once the close event of a connection has been handled, no game room
\* holds a member that the connection owns.
CloseRemovesOwnedMembers ==
  [][ \A ws \in Conns :
        HandlePlayerDisconnect(ws)
          => \A r \in DOMAIN rooms' :
               \A i \in 1..Len(rooms'[r].players) : rooms'[r].players[i].ws # ws
    ]_vars

\* The <<room id, user id>> of every voice room member that connection ws owns.
VoiceOwned(ws) ==
  UNION { { <<r, voiceRooms[r].users[i].id>> :
              i \in { j \in 1..Len(voiceRooms[r].users) : voiceRooms[r].users[j].ws = ws } } :
          r \in DOMAIN voiceRooms }

\* C15: when the connection of a voice room member closes, the member is
\* removed as by a voice_room_leave: its entry and its index entry are
\* deleted, the remaining members are told, a temporary room left empty is
\* deleted.
CloseLeavesVoiceRoom ==
  [][ \A ws \in Conns :
        \A m \in VoiceOwned(ws) :
        (HandleVoiceClose(ws) /\ VoiceOwned(ws) = {m})
          => LET out == RemoveUserFromRoom(voiceRooms, userRooms, connOpen', m[2], m[1])
             IN /\ voiceRooms' = out.rooms
                /\ userRooms' = out.userRooms
                /\ sent' = out.sent
    ]_vars

\* No member of a voice room of the store vr is both muted and speaking.
NoMutedSpeaker(vr) ==
  \A r \in DOMAIN vr :
    \A i \in 1..Len(vr[r].users) : ~(vr[r].users[i].isMuted /\ vr[r].users[i].isSpeaking)

\* C16: no member is ever both muted and speaking; a voice_mute for a member
\* sets isMuted and clears isSpeaking in one step and is broadcast to every
\* member of the room with an open connection, the muted one included; a
\* voice_start_speaking from a muted member changes nothing and sends nothing.
MuteSilences ==
  [][ /\ NoMutedSpeaker(voiceRooms')
      /\ \A u \in 1..VoiceIds, r \in SpeechRooms :
           (HandleMute(u, r) /\ ~NoSuchMember(r, u))
             => /\ UserGet(voiceRooms', r, u).isMuted
                /\ ~UserGet(voiceRooms', r, u).isSpeaking
                /\ Len(sent') = Cardinality({ i \in 1..Len(voiceRooms[r].users) :
                                               connOpen[voiceRooms[r].users[i].ws] })
                /\ \A i \in 1..Len(sent') : sent'[i].type = "voice_mute"
                /\ \A i \in 1..Len(voiceRooms[r].users) :
                     connOpen[voiceRooms[r].users[i].ws]
                       => \E k \in 1..Len(sent') : sent'[k].to = voiceRooms[r].users[i].ws
      /\ \A u \in 1..VoiceIds, r \in SpeechRooms :
           (HandleStartSpeaking(u, r) /\ ~NoSuchMember(r, u) /\ UserGet(voiceRooms, r, u).isMuted)
             => /\ sent' = <<>>
                /\ UNCHANGED <<voiceRooms, userRooms, suspended>>
    ]_vars

\* C16 witness: in a room of two, one member is muted and silent, the other
\* is speaking, and the voice_mute broadcast has just gone to both.
MutedNextToSpeaker ==
  \E r \in DOMAIN voiceRooms :
    /\ Len(voiceRooms[r].users) = 2
    /\ \E i, j \in 1..2 :
         /\ voiceRooms[r].users[i].isMuted /\ ~voiceRooms[r].users[i].isSpeaking
         /\ voiceRooms[r].users[j].isSpeaking
    /\ Len(sent) = 2
    /\ \A k \in 1..2 : sent[k].type = "voice_mute" /\ sent[k].to = voiceRooms[r].users[k].ws

\* C17: from a handled voice_mute of user A until the next voice_unmute of A,
\* no voice_start_speaking and no voice_audio_data of A reaches another member
\* of A's room.
MutedStaysSilent ==
  [][ \A u \in muteHandled, r \in SpeechRooms :
        (HandleStartSpeaking(u, r) \/ HandleAudioData(u, r)) => sent' = <<>>
    ]_vars

\* The member is within the bomb's radius of the explosion point (Euclidean
\* distance, compared through the squares).
InBlast(player, bomb) ==
  (player.position[1] - bomb.explosionPosition[1]) * (player.position[1] - bomb.explosionPosition[1])
    + (player.position[2] - bomb.explosionPosition[2]) * (player.position[2] - bomb.explosionPosition[2])
    <= bomb.radius * bomb.radius

\* C18: a bomb_explosion takes its damage, floored at 0, off the lives of
\* exactly the members within the radius and leaves the other members as they
\* are; affectedPlayers of the broadcast lists exactly the members within the
\* radius with their lives afterwards; no member's lives is negative.
BombHitsWithinRadius ==
  [][ /\ \A r \in DOMAIN rooms' :
           \A i \in 1..Len(rooms'[r].players) : rooms'[r].players[i].lives >= 0
      /\ \A r \in DOMAIN rooms, bomb \in BombInputs :
           HandleBombExplosion(r, bomb)
             => LET before == rooms[r].players
                    after == rooms'[r].players
                    hit == { i \in 1..Len(before) : InBlast(before[i], bomb) }
                IN /\ Len(after) = Len(before)
                   /\ \A i \in 1..Len(before) :
                        IF i \in hit
                          THEN after[i] = [before[i] EXCEPT !.lives =
                                 IF before[i].lives >= bomb.damage
                                   THEN before[i].lives - bomb.damage ELSE 0]
                          ELSE after[i] = before[i]
                   /\ \A k \in 1..Len(sent') :
                        LET list == sent'[k].data.affectedPlayers
                        IN /\ sent'[k].type = "bomb_explosion"
                           /\ Len(list) = Cardinality(hit)
                           /\ { list[j].id : j \in 1..Len(list) } = { before[i].id : i \in hit }
                           /\ \A j \in 1..Len(list) : \A i \in 1..Len(after) :
                                after[i].id = list[j].id => list[j].lives = after[i].lives
    ]_vars

\* C18 witness: an explosion just hit one member, who is down to 0 lives, and
\* missed the other, who keeps 3; the broadcast lists the one that was hit.
BombHitOneOfTwo ==
  \E r \in DOMAIN rooms :
    /\ Len(rooms[r].players) = 2
    /\ \E i, j \in 1..2 : rooms[r].players[i].lives = 0 /\ rooms[r].players[j].lives = 3
    /\ sent # <<>>
    /\ \A k \in 1..Len(sent) :
         /\ sent[k].type = "bomb_explosion"
         /\ Len(sent[k].data.affectedPlayers) = 1
         /\ sent[k].data.affectedPlayers[1].lives = 0

\* C20: a player_score with points k from a member adds exactly k to that
\* member's score and changes no other member; when the awaited save has
\* settled, resolved or thrown, player_score goes to every member of the room
\* with an open connection, the scorer included, no score changes and no
\* error is sent.
ScoreSurvivesFailedSave ==
  [][ /\ \A r \in DOMAIN rooms, p \in 1..PlayIds, k \in Points :
           (HandlePlayerScore(r, p, k) /\ MapHas(rooms[r].players, p))
             => /\ r \in DOMAIN rooms'
                /\ Len(rooms'[r].players) = Len(rooms[r].players)
                /\ \A i \in 1..Len(rooms[r].players) :
                     rooms'[r].players[i] =
                       IF rooms[r].players[i].id = p
                         THEN [rooms[r].players[i] EXCEPT !.score = @ + k]
                         ELSE rooms[r].players[i]
      /\ \A saved \in BOOLEAN :
           (ResumePlayerScore(saved) /\ Len(scoring) = 1)
             => LET h == scoring[1]
                    members == IF h.roomId \in DOMAIN rooms THEN rooms[h.roomId].players ELSE <<>>
                    open == { i \in 1..Len(members) : connOpen[members[i].ws] }
                IN /\ UNCHANGED rooms
                   /\ Len(sent') = Cardinality(open)
                   /\ \A i \in open : \E j \in 1..Len(sent') : sent'[j].to = members[i].ws
                   /\ \A j \in 1..Len(sent') :
                        /\ sent'[j].type = "player_score" /\ ~sent'[j].error
                        /\ sent'[j].data.playerId = h.playerId /\ sent'[j].data.points = h.points
    ]_vars

\* C20 witness: the score of a member of a room of two was announced to both
\* members, the scorer (who has the points) included.
ScoreAnnouncedToAll ==
  \E r \in DOMAIN rooms :
    /\ Len(rooms[r].players) = 2
    /\ Len(sent) = 2
    /\ \A k \in 1..2 :
         /\ sent[k].type = "player_score" /\ ~sent[k].error
         /\ sent[k].to = rooms[r].players[k].ws
    /\ \E i \in 1..2 :
         /\ rooms[r].players[i].id = sent[1].data.playerId
         /\ rooms[r].players[i].score = sent[1].data.points

\* The place of the member with this id in the member list.
JoinOrder(members, id) == CHOOSE i \in 1..Len(members) : members[i].id = id

\* C19: the ranking endGame computes holds every member of the room exactly
\* once with its score, in descending order of score, members of equal score
\* in their order of membership; the game_end broadcast carries that ranking
\* and names its first entry as winner.
RankingSortedAndStable ==
  [][ /\ \A r \in DOMAIN rooms :
           (GameTimeout(r) /\ Len(ending') = Len(ending) + 1)
             => LET res == ending'[Len(ending')].results
                    members == rooms[r].players
                IN /\ Len(res) = Len(members)
                   /\ \A i \in 1..Len(members) :
                        Cardinality({ j \in 1..Len(res) : res[j].id = members[i].id }) = 1
                   /\ \A j \in 1..Len(res) :
                        res[j].score = members[JoinOrder(members, res[j].id)].score
                   /\ \A i, j \in 1..Len(res) :
                        i < j => \/ res[i].score > res[j].score
                                 \/ /\ res[i].score = res[j].score
                                    /\ JoinOrder(members, res[i].id) < JoinOrder(members, res[j].id)
      /\ (EndGameBroadcast /\ Len(ending) = 1)
           => \A k \in 1..Len(sent') :
                /\ sent'[k].type = "game_end"
                /\ sent'[k].data.results = ending[1].results
                /\ sent'[k].data.winner = ending[1].results[1]
    ]_vars

\* C19 witness: a game_end was broadcast whose ranking of three puts the
\* member that joined last first and keeps the two members that tie below it
\* in their order of membership.
RankingReordered ==
  \E r \in DOMAIN rooms :
    /\ Len(rooms[r].players) = 3
    /\ sent # <<>>
    /\ \A k \in 1..Len(sent) :
         /\ sent[k].type = "game_end"
         /\ Len(sent[k].data.results) = 3
         /\ sent[k].data.winner.id = rooms[r].players[3].id
         /\ sent[k].data.results[2].id = rooms[r].players[1].id
         /\ sent[k].data.results[3].id = rooms[r].players[2].id
         /\ sent[k].data.results[2].score = sent[k].data.results[3].score

\* The suspended handlers without the i-th.
Resumed(suspendedScores, i) ==
  [j \in 1..(Len(suspendedScores) - 1) |->
     IF j < i THEN suspendedScores[j] ELSE suspendedScores[j + 1]]

\* C21: two player_score messages of one connection take effect in order,
\* also when the handler of the first is suspended at its save: the
\* player_score broadcast of a handler that resumes carries the score that
\* its own message gave the player.
ScoreBroadcastCarriesOwnScore ==
  [][ \A saved \in BOOLEAN :
        ResumePlayerScore(saved)
          => \E i \in 1..Len(scoring) :
               /\ scoring' = Resumed(scoring, i)
               /\ \A j \in 1..Len(sent') :
                    /\ sent'[j].data.playerId = scoring[i].playerId
                    /\ sent'[j].data.score = scoring[i].scored
    ]_vars

\* Connection ws is the owning connection of a member of the room.
OwnsMember(ws, room) == \E i \in 1..Len(room.players) : room.players[i].ws = ws

\* A message other than room_join that names room r, whoever it names as
\* player, is handled in this step.
NamesRoom(r) ==
  \/ \E p \in Ids : LeaveGameRoom(r, p)
  \/ \E p \in Ids : StartGame(r, p)
  \/ HandleFruitSpawn(r, "apple")
  \/ \E u \in StateUpdates : BroadcastGameState(r, u)
  \/ \E p \in Ids : HandleGameEnd(r, p)

\* C22: a message that arrives on an open connection owning no member of
\* game room r, and is not a join, leaves r as it is: its members, hostId,
\* status, gameState and timer.  (No handler of these messages looks at the
\* connection a message arrived on: arriving on ws means ws is open.)
OutsiderLeavesRoomAlone ==
  [][ \A r \in DOMAIN rooms, ws \in Conns :
        (connOpen[ws] /\ ~OwnsMember(ws, rooms[r]) /\ NamesRoom(r))
          => /\ r \in DOMAIN rooms' /\ rooms'[r] = rooms[r]
             /\ UNCHANGED <<gameTimers, timeouts>>
    ]_vars

\* C23: a player_move for a room that is not playing changes nothing and
\* sends nothing; for a playing room it sets the mover's position to the one
\* of the message, changes no other member and nothing else, and goes to
\* every other member whose connection is open, never to the mover.
MoveReachesOthers ==
  [][ \A r \in 1..MaxRooms, p \in Ids, position \in MovePositions :
        HandlePlayerMove(r, p, position)
          => IF r \in DOMAIN rooms /\ rooms[r].status = "playing" /\ MapHas(rooms[r].players, p)
               THEN LET before == rooms[r].players
                        others == SelectSeq(before, LAMBDA m : m.id # p /\ connOpen[m.ws])
                    IN /\ r \in DOMAIN rooms'
                       /\ rooms = [rooms' EXCEPT ![r].players = before]
                       /\ Len(rooms'[r].players) = Len(before)
                       /\ \A i \in 1..Len(before) :
                            rooms'[r].players[i] =
                              IF before[i].id = p
                                THEN [before[i] EXCEPT !.position = position]
                                ELSE before[i]
                       /\ Len(sent') = Len(others)
                       /\ \A k \in 1..Len(sent') :
                            /\ sent'[k].to = others[k].ws
                            /\ sent'[k].type = "player_move"
                            /\ sent'[k].data.position = position
                       /\ UNCHANGED <<playerRooms, gameTimers, timeouts, ending, scoring>>
               ELSE /\ sent' = <<>>
                    /\ UNCHANGED <<rooms, playerRooms, gameTimers, timeouts, ending, scoring>>
    ]_vars

\* C23 witness: in a playing room of three the second member has moved; the
\* other two are where they were and the move went to them, on the
\* connection they share, and not to the mover's connection.
MoverNotTold ==
  \E r \in DOMAIN rooms :
    /\ rooms[r].status = "playing"
    /\ Len(rooms[r].players) = 3
    /\ rooms[r].players[2].position \in MovePositions
    /\ rooms[r].players[1].position = <<50, 50>> /\ rooms[r].players[3].position = <<50, 50>>
    /\ Len(sent) = 2
    /\ \A k \in 1..2 :
         /\ sent[k].type = "player_move"
         /\ sent[k].to # rooms[r].players[2].ws
         /\ sent[k].to \in { rooms[r].players[1].ws, rooms[r].players[3].ws }

\* C24: a voice_audio_data from a member that is not muted goes to every
\* other member that is neither deafened nor has its speaker off and whose
\* connection is open, and to no other member; each copy carries the volume
\* of the member it goes to as its scaling factor; nothing else changes.
AudioReachesHearing ==
  [][ \A u \in Ids, r \in SpeechRooms :
        (HandleAudioData(u, r) /\ ~NoSuchMember(r, u) /\ ~UserGet(voiceRooms, r, u).isMuted)
          => LET users == voiceRooms[r].users
                 hearing == SelectSeq(users, LAMBDA m :
                               /\ m.id # u /\ ~m.isDeafened /\ m.speakerEnabled
                               /\ connOpen[m.ws])
             IN /\ Len(sent') = Len(hearing)
                /\ \A k \in 1..Len(sent') :
                     /\ sent'[k].type = "voice_audio_data"
                     /\ sent'[k].to = hearing[k].ws
                     /\ sent'[k].data.audioData.volume = <<hearing[k].volume, 100>>
                /\ UNCHANGED <<voiceVars, connOpen>>
    ]_vars

\* C24 witness: in a room of three with a deafened member and a hearing one
\* whose volume is 50, the audio of the third went to the hearing member
\* alone, scaled by 50 / 100.
AudioSkippedDeafened ==
  \E r \in DOMAIN voiceRooms :
    /\ Len(voiceRooms[r].users) = 3
    /\ \E i, j \in 1..3 :
         /\ voiceRooms[r].users[i].isDeafened
         /\ ~voiceRooms[r].users[j].isDeafened /\ voiceRooms[r].users[j].speakerEnabled
         /\ voiceRooms[r].users[j].volume = 50
         /\ Len(sent) = 1
         /\ sent[1].type = "voice_audio_data"
         /\ sent[1].to = voiceRooms[r].users[j].ws
         /\ sent[1].data.audioData.volume = <<50, 100>>
         /\ sent[1].data.senderId \notin { voiceRooms[r].users[i].id, voiceRooms[r].users[j].id }

\* C25: a voice_noise_reduction sets the room's noiseReduction and is
\* broadcast to the room's members only if the requester is a member of the
\* room with the administrator flag; otherwise nothing changes and nothing is
\* sent.
NoiseReductionByAdminOnly ==
  [][ \A u \in 1..VoiceIds, r \in SpeechRooms, enabled \in BOOLEAN :
        HandleNoiseReduction(u, r, enabled)
          => IF ~NoSuchMember(r, u) /\ UserGet(voiceRooms, r, u).isAdmin
               THEN LET open == SelectSeq(voiceRooms[r].users, LAMBDA m : connOpen[m.ws])
                    IN /\ voiceRooms' = [voiceRooms EXCEPT ![r].noiseReduction = enabled]
                       /\ Len(sent') = Len(open)
                       /\ \A k \in 1..Len(sent') :
                            /\ sent'[k].type = "voice_room_settings"
                            /\ sent'[k].to = open[k].ws
                            /\ sent'[k].data.noiseReduction = enabled
                       /\ UNCHANGED <<userRooms, suspended, nextVoiceId>>
               ELSE /\ sent' = <<>>
                    /\ UNCHANGED <<voiceRooms, userRooms, suspended, nextVoiceId>>
    ]_vars

\* C25 witness: the administrator of a room of two, the other member not
\* one, has switched noise reduction off, and both members were told.
NoiseReductionSwitchedOff ==
  \E r \in DOMAIN voiceRooms :
    /\ ~voiceRooms[r].noiseReduction
    /\ Len(voiceRooms[r].users) = 2
    /\ \E i, j \in 1..2 : voiceRooms[r].users[i].isAdmin /\ ~voiceRooms[r].users[j].isAdmin
    /\ Len(sent) = 2
    /\ \A k \in 1..2 :
         /\ sent[k].type = "voice_room_settings"
         /\ sent[k].to = voiceRooms[r].users[k].ws
         /\ ~sent[k].data.noiseReduction

\* C26: a game_start naming a requester that is not the room's hostId is
\* dropped in silence: nothing is sent, not even an error to the requester,
\* and no room, index entry or timer changes.
StartByNonHostDropped ==
  [][ \A r \in DOMAIN rooms, p \in Ids :
        (StartGame(r, p) /\ rooms[r].hostId # p)
          => /\ sent' = <<>>
             /\ UNCHANGED <<gameVars, connOpen>>
    ]_vars

\* C26 witness: a waiting room whose one member, its host, is ready (a
\* game_start of the host would start it) after a message was dropped in
\* silence; the other identities are not its host.
StartDroppedInReadyRoom ==
  \E r \in DOMAIN rooms :
    /\ rooms[r].status = "waiting"
    /\ AllReady(rooms[r])
    /\ \E p \in Ids : p # rooms[r].hostId
    /\ \A c \in Conns : connOpen[c]
    /\ sent = <<>>

\* C27: when a join to a game room is admitted, the arrival event goes to
\* the members that were in the room already (those with an open
\* connection) and not to the member that joins.
ArrivalNotSentToJoiner ==
  [][ \A p \in Ids, r \in 1..MaxRooms, pw \in Passwords :
        (JoinGameRoom(ConnOf(p), p, r, pw, SomePosition) /\ JoinVerdict(r, pw) = "ok")
          => LET already == SelectSeq(rooms[r].players, LAMBDA m : m.id # p /\ connOpen[m.ws])
             IN /\ Len(sent') = Len(already)
                /\ \A k \in 1..Len(sent') :
                     sent'[k].type = "player_joined" /\ sent'[k].to = already[k].ws
    ]_vars

\* The members of a list a broadcast that excludes identity x is for: those
\* other than x whose connection is open, in the list's order.
Recipients(members, open, x) == SelectSeq(members, LAMBDA m : m.id # x /\ open[m.ws])

\* C28: a broadcast to a game room or a voice room that excludes identity x
\* (0: nobody) sends one message to each current member of that room other
\* than x whose connection is open and no other message: none on a
\* connection that is not open, none for a member of another room.  The
\* broadcast is a reading of the store and changes nothing in it; no message
\* of the last handler went to a connection that is not open.
BroadcastReachesOpenMembers ==
  /\ \A r \in DOMAIN rooms, x \in {0} \cup Ids :
       LET out == BroadcastToRoom(rooms, connOpen, r, "player_left", FALSE, x)
           to == Recipients(rooms[r].players, connOpen, x)
       IN /\ Len(out) = Len(to)
          /\ \A k \in 1..Len(out) : out[k].to = to[k].ws /\ connOpen[out[k].to]
  /\ \A r \in DOMAIN voiceRooms, x \in {0} \cup Ids :
       LET out == BroadcastToVoiceRoom(voiceRooms, connOpen, r, "voice_user_status", x)
           to == Recipients(voiceRooms[r].users, connOpen, x)
       IN /\ Len(out) = Len(to)
          /\ \A k \in 1..Len(out) : out[k].to = to[k].ws /\ connOpen[out[k].to]
  /\ \A k \in 1..Len(sent) : connOpen[sent[k].to]

\* C28 witness: the third member has joined a voice room one of whose members
\* has a closed connection while the other room holds nobody: beside the
\* joiner's confirmation the arrival went to the one member that is neither
\* the joiner nor closed.
ArrivalSkippedClosed ==
  \E r \in DOMAIN voiceRooms :
    /\ Len(voiceRooms[r].users) = 3
    /\ ~connOpen[voiceRooms[r].users[2].ws]
    /\ connOpen[voiceRooms[r].users[1].ws] /\ connOpen[voiceRooms[r].users[3].ws]
    /\ Len(sent) = 2
    /\ sent[1] = Msg(voiceRooms[r].users[3].ws, "voice_room_join", FALSE)
    /\ sent[2] = Msg(voiceRooms[r].users[1].ws, "voice_user_status", FALSE)

\* C29: a connection that was pinged by a sweep and has sent no pong since is
\* terminated by the next sweep; one that has answered the last ping, or was
\* never pinged, is not terminated by it; a sweep terminates a client whose
\* flag is false and otherwise clears the flag and pings it; nothing but a
\* sweep terminates a connection, and it terminates none that answered.
SweepTerminatesTheSilent ==
  [][ /\ PingSweep
           => \A ws \in Conns :
                connOpen[ws]
                  => /\ awaiting[ws] => ~connOpen'[ws] /\ ws \in closing'
                     /\ ~awaiting[ws] => connOpen'[ws]
                     /\ IF isAlive[ws] = FALSE
                          THEN /\ ~connOpen'[ws]
                               /\ \A k \in 1..Len(sent') : sent'[k].to # ws
                          ELSE /\ connOpen'[ws] /\ isAlive'[ws] = FALSE
                               /\ \E k \in 1..Len(sent') : sent'[k] = Msg(ws, "ping", FALSE)
      /\ \A ws \in closing' \ closing : awaiting[ws]
    ]_vars

\* C29 witness: a sweep has just terminated connection 1, which had not
\* answered the ping before, and pinged connection 2 again, which had.
SilentOneTerminated ==
  /\ closing = {1}
  /\ ~connOpen[1] /\ connOpen[2]
  /\ isAlive[2] = FALSE /\ awaiting[2]
  /\ sent = <<Msg(2, "ping", FALSE)>>

\* C30: a message whose type a manager has no case for leaves that manager's
\* rooms, members, index and timers as they are, sends nothing and does not
\* close the connection it came on.
UnknownTypeChangesNothing ==
  [][ /\ \A ws \in Conns, type \in OtherTypes :
           (type \notin GameCases /\ HandleGameDefault(ws, type))
             => /\ sent' = <<>>
                /\ UNCHANGED <<rooms, playerRooms, gameTimers, timeouts, ending, scoring>>
                /\ UNCHANGED <<connOpen, closing>>
      /\ \A ws \in Conns, type \in OtherTypes :
           (type \notin VoiceCases /\ HandleVoiceDefault(ws, type))
             => /\ sent' = <<>>
                /\ UNCHANGED <<voiceRooms, userRooms, suspended>>
                /\ UNCHANGED <<connOpen, closing>>
    ]_vars

\* C30 witness: a message was passed over in silence while a game room is
\* playing with its timer armed and the voice room holds two members; every
\* connection is still open.
PassedOverWhilePlaying ==
  /\ \E r \in DOMAIN rooms :
       rooms[r].status = "playing" /\ r \in DOMAIN gameTimers /\ gameTimers[r] \in timeouts
  /\ \E r \in DOMAIN voiceRooms : Len(voiceRooms[r].users) = 2
  /\ \A ws \in Conns : connOpen[ws]
  /\ sent = <<>>

\* C31: the permanent voice rooms general and gaming are in the room store in
\* every reachable state, with or without members.
PermanentRoomsStay ==
  /\ {"general", "gaming"} \subseteq DOMAIN voiceRooms
  /\ \A r \in {"general", "gaming"} : ~voiceRooms[r].isTemporary

\* C31 witness: the temporary room that was created has been deleted after
\* its last member left, and both permanent rooms stand empty.
PermanentRoomsEmptyAgain ==
  /\ nextVoiceId = 1 /\ VoiceRoomId(1) \notin DOMAIN voiceRooms
  /\ \A r \in {"general", "gaming"} : r \in DOMAIN voiceRooms /\ voiceRooms[r].users = <<>>
  /\ suspended = <<>>

\* C32: whenever no voice handler is suspended (every voice_room_create,
\* join, leave and close has completed), every temporary voice room in the
\* store has at least one member.
NoEmptyTemporaryRoom ==
  suspended = <<>> =>
    \A r \in DOMAIN voiceRooms : voiceRooms[r].isTemporary => Len(voiceRooms[r].users) >= 1

\* C37: when a voice_room_create completes, the creator is a member of the
\* new temporary room and the index maps the creator to it, whatever the
\* isPrivate, password and maxUsers of the request.
CreatorAdmitted ==
  [][ ResumeRoomCreate =>
        LET h == Head(suspended)
        IN /\ h.roomId \in DOMAIN voiceRooms'
           /\ MapHas(voiceRooms'[h.roomId].users, h.userId)
           /\ h.userId \in DOMAIN userRooms'
           /\ userRooms'[h.userId] = h.roomId
    ]_vars

\* C33: the game index agrees with the room store: playerRooms maps player
\* p to room r exactly when room r exists and p is one of its members, so
\* getPlayerRoom answers with the player's current room and with null
\* exactly when the player is in no room.
GameIndexAgrees ==
  \A p \in Ids : \A r \in 1..(MaxRooms + LobbyRooms) :
    (p \in DOMAIN playerRooms /\ playerRooms[p] = r)
      <=> (r \in DOMAIN rooms /\ MapHas(rooms[r].players, p))

\* C34: a voice_quality_change leaves the user's volume within 0..100
\* whatever volume it asks for, and a requested volume inside 0..100, 0
\* included, becomes the user's volume.
VolumeKeptInRange ==
  [][ \A u \in 1..VoiceIds, r \in SpeechRooms, inp \in VolumeInputs :
        (~NoSuchMember(r, u) /\ HandleQualityChange(u, r, inp))
          => LET volume == UserGet(voiceRooms', r, u).volume
             IN /\ volume \in 0..100
                /\ inp.volume \in 0..100 => volume = inp.volume
    ]_vars

\* C35: single active session.  A query of the authenticated user with the
\* token of a login is answered 401 MULTIPLE_LOGIN when the same user has
\* logged in again since, and is accepted when that login is the user's
\* most recent one and the user has not logged out since.
SingleActiveSession ==
  [][ \A i \in 1..Len(sessionLog) :
        (sessionLog[i].kind = "login" /\ HandleUserQuery(sessionLog[i].token))
          => LET since == { j \in (i + 1)..Len(sessionLog) :
                              sessionLog[j].userId = sessionLog[i].userId }
             IN /\ (\E j \in since : sessionLog[j].kind = "login")
                     => response' = Answer(sessionLog[i].token, 401, "MULTIPLE_LOGIN")
                /\ since = {} => response' = Answer(sessionLog[i].token, 200, "USER")
    ]_vars

\* C35 witness: user 1 has logged in twice and user 2 once; the query with
\* the token of user 1's first login has just been answered 401
\* MULTIPLE_LOGIN.
EarlierTokenRejected ==
  /\ Len(sessionLog) = 3
  /\ \A i \in 1..3 : sessionLog[i].kind = "login"
  /\ sessionLog[1].userId = 1 /\ sessionLog[2].userId = 2 /\ sessionLog[3].userId = 1
  /\ response = Answer(sessionLog[1].token, 401, "MULTIPLE_LOGIN")

\* C36: the voice index never dangles: when userRooms maps user u to room
\* r, room r is in the store and u is one of its members, after any
\* sequence of creates, joins (re-joins of the same room included) and
\* leaves.
VoiceIndexNeverDangles ==
  \A u \in DOMAIN userRooms :
    /\ userRooms[u] \in DOMAIN voiceRooms
    /\ MapHas(voiceRooms[userRooms[u]].users, u)

\* C38: every game room's hostId is the id of one of its current members,
\* and a member whose isHost flag is set has that id.
HostIdNamesMember ==
  \A r \in DOMAIN rooms :
    /\ MapHas(rooms[r].players, rooms[r].hostId)
    /\ \A i \in 1..Len(rooms[r].players) :
         rooms[r].players[i].isHost => rooms[r].players[i].id = rooms[r].hostId

\* C38 witness: a leave has just been announced in a room whose host is a
\* player that joined it (not ready, so not its creator) and now carries the
\* isHost flag: the host role was handed over.
HostIdHandedOver ==
  /\ sent # <<>> /\ \A i \in 1..Len(sent) : sent[i].type = "player_left"
  /\ \E r \in DOMAIN rooms : \E i \in 1..Len(rooms[r].players) :
       /\ rooms[r].players[i].id = rooms[r].hostId
       /\ rooms[r].players[i].isHost
       /\ ~rooms[r].players[i].isReady

\* C39: every member of a room whose status is playing has its ready flag
\* set.
PlayingMembersReady ==
  \A r \in DOMAIN rooms :
    rooms[r].status = "playing" =>
      \A i \in 1..Len(rooms[r].players) : rooms[r].players[i].isReady

\* C39 witness: a room is playing and a join has just been answered with
\* an error on a connection that none of the playing room's members uses.
JoinRefusedWhilePlaying ==
  \E r \in DOMAIN rooms :
    /\ rooms[r].status = "playing"
    /\ Len(sent) = 1 /\ sent[1].error
    /\ \A i \in 1..Len(rooms[r].players) : rooms[r].players[i].ws # sent[1].to

\* C40: when a suspended endGame resumes and broadcasts game_end, the room
\* still has status finished and the ranking in the message is that of the
\* room's members and scores at that moment, whatever handlers ran while
\* endGame was suspended at its awaited saves.
GameEndBroadcastCurrent ==
  [][ \A i \in 1..Len(ending) :
        LET e == ending[i]
            msgs == WithData(BroadcastToRoom(rooms, connOpen, e.roomId, "game_end", FALSE, 0),
                             [reason |-> e.reason, results |-> e.results,
                              winner |-> e.results[1]])
        IN (EndGameBroadcast /\ msgs # <<>> /\ sent' = msgs)
             => /\ rooms[e.roomId].status = "finished"
                /\ e.results = Results(rooms[e.roomId].players)
    ]_vars
====
